---- MODULE Spec2Model ----
(***************************************************************************)
(* A model of the scheduled ingestion jobs under scripts/:                 *)
(*   update_research_feed.py  (research-feed.json)                         *)
(*   sync_oura.py             (oura-data.json)                             *)
(*   update_weekly_content.py (weekly-recipes.json, weekly-workouts.json)  *)
(*   analyze_nutrition.py     (nutrition-report.json)                      *)
(*   fetch_goodreads.py       (goodreads-feed.json)                        *)
(*                                                                         *)
(* Strings whose letter case matters (urls, titles) are sequences of       *)
(* one-character strings, so that str.lower() is a real conversion.        *)
(* Timestamps are positive integers; the absent timestamp is NoTimestamp.  *)
(***************************************************************************)
EXTENDS Integers, Sequences, FiniteSets, TLC

VARIABLES
    \* ---- update_research_feed.py ----
    research_feed_json,  \* the file research-feed.json on disk
    pc,                  \* position of the research-feed run
    clock,               \* number of research-feed runs started (datetime.now)
    existing,            \* main: existing
    existing_urls,       \* main: existing_urls
    all_items,           \* main: all_items
    feedIdx,             \* main: index of the feed the loop of line 158 is at
    deduped,             \* main: deduped (after sort and isNew marking)
    output,              \* main: output
    newSeen,             \* history: keys flagged isNew in a snapshot written by an earlier run
    \* ---- dedupe_items as a pure function ----
    dd_in,               \* argument of dedupe_items
    dd_out,              \* its result
    dd_pc,               \* "in" before the call, "out" after it
    \* ---- sync_oura.py ----
    oura_data_json,      \* the file oura-data.json on disk
    oura_pc,             \* position of the health-sync run
    pat,                 \* main: pat, the OURA_PAT environment variable, stripped
    endpointIdx,         \* main: which of the seven get_* calls (lines 248-266) is next
    fetched,             \* main: daily_sleep, sleep_periods, readiness, activity,
                         \*       heart_rate, workouts, spo2
    rawRecords,          \* number of records the endpoints have served in this run
    daily_data,          \* main: daily_data
    report,              \* main: report
    \* ---- update_weekly_content.py, analyze_nutrition.py, fetch_goodreads.py ----
    job,                 \* which of the three scripts this behaviour runs
    w_pc,                \* position of the weekly-content run
    w_idx,               \* fetch_feed_items: the feed the loop is at, over
                         \* RECIPE_FEEDS followed by LONGEVITY_FEEDS
    w_all_items,         \* fetch_feed_items: all_items
    recipe_items,        \* main: recipe_items
    longevity_items,     \* main: longevity_items
    workout_reply,       \* what the completion call for the workouts came to
    workout_items,       \* main: workout_items
    meal_reply,          \* what the completion call for the meal plan came to
    meal_plan,           \* main: meal_plan
    weekly_recipes_json, \* the file weekly-recipes.json
    weekly_workouts_json,\* the file weekly-workouts.json
    n_pc,                \* position of the nutrition run
    gist_id,             \* main: gist_id
    meal_data,           \* main: meal_data
    analysis_reply,      \* what the completion call for the analysis came to
    analysis,            \* main: analysis
    nutrition_report_json, \* the file nutrition-report.json
    g_pc,                \* position of the goodreads run
    g_env,               \* GOODREADS_USER_ID and GOODREADS_RSS_KEY
    books,               \* main: books
    goodreads_feed_json, \* the file goodreads-feed.json
    \* ---- parse_rss / parse_atom called on one payload ----
    parse_job,           \* the script whose parser is called
    parse_type,          \* feed["type"]
    xml_data,            \* parse_rss / parse_atom: xml_data
    parsed,              \* what the call returned, or that it raised
    parse_pc,            \* before or after the call
    \* ---- one job run twice on the same source payloads ----
    rr_job,              \* the job that is run
    rr_payload,          \* what the sources return, in both runs
    rr_results,          \* the merged entities of the runs made so far
    \* ---- the sort of the deduplicated items, called on one list ----
    sort_in,             \* deduped before deduped.sort(...)
    sort_out,            \* deduped after it
    sort_pc,             \* before or after the call
    \* ---- research-feed runs one after the other, same source payloads ----
    serial_payload,      \* main: all_items, what the sources return in every run
    serial_file,         \* the file research-feed.json between the runs
    serial_runs          \* per finished run: existing_urls, deduped, new_count,
                         \* output, and whether the write went through

feedVars == <<research_feed_json, pc, clock, existing, existing_urls, all_items,
              feedIdx, deduped, output, newSeen>>
ddVars == <<dd_in, dd_out, dd_pc>>
ouraVars == <<oura_data_json, oura_pc, pat, endpointIdx, fetched, rawRecords,
              daily_data, report>>
weeklyVars == <<w_pc, w_idx, w_all_items, recipe_items, longevity_items, workout_reply,
                workout_items, meal_reply, meal_plan, weekly_recipes_json,
                weekly_workouts_json>>
nutritionVars == <<n_pc, gist_id, meal_data, analysis_reply, analysis, nutrition_report_json>>
goodreadsVars == <<g_pc, g_env, books, goodreads_feed_json>>
contentVars == <<job, weeklyVars, nutritionVars, goodreadsVars>>
parseVars == <<parse_job, parse_type, xml_data, parsed, parse_pc>>
rerunVars == <<rr_job, rr_payload, rr_results>>
sortVars == <<sort_in, sort_out, sort_pc>>
serialVars == <<serial_payload, serial_file, serial_runs>>
fnVars == <<parseVars, rerunVars, sortVars, serialVars>>
vars == <<feedVars, ddVars, ouraVars, contentVars, fnVars>>

\* ------------------------------------------------------------------ bounds
MaxRuns == 3          \* research-feed runs in one behaviour
MaxRunItems == 2      \* items all feeds together return in one run
MaxDedupeLen == 3     \* length of the argument of dedupe_items
MaxOuraRecords == 3   \* records all Oura endpoints together serve in one run
MaxWeeklyItems == 2   \* items the feeds of one fetch_feed_items call together return
MaxBooks == 2         \* items of the Goodreads shelf feed
MaxRecords == 2       \* <item> / <entry> records of one parsed payload
MaxRerunRecords == 2  \* records the sources return to a job that is run twice
MaxSortLen == 3       \* length of the list that is sorted
MaxFetched == 52      \* items the sources return to each of the serialized runs
MaxSerialRuns == 2    \* serialized runs on the same payloads

\* ------------------------------------------------------------- primitives
NoTimestamp == 0

BoundedSeq(S, n) == UNION {[1..k -> S] : k \in 0..n}

Range(s) == {s[i] : i \in DOMAIN s}

\* str.lower() on one character
LowerChar(c) ==
    CASE c = "A" -> "a"
      [] c = "B" -> "b"
      [] c = "X" -> "x"
      [] c = "Y" -> "y"
      [] c = "S" -> "s"
      [] c = "T" -> "t"
      [] c = "U" -> "u"
      [] OTHER -> c

\* str.lower()
Lower(s) == [i \in DOMAIN s |-> LowerChar(s[i])]

\* ---------------------------------------------- update_research_feed.py
FEEDS == <<
    [name |-> "Google News", type |-> "rss"],
    [name |-> "arXiv", type |-> "atom"],
    [name |-> "Dysautonomia International", type |-> "rss"] >>

SNAPSHOT_LIMIT == 50

\* The (title, url, published) triples the feeds serve: two urls that differ
\* only in letter case, two items with the same timestamp, one without any.
FeedEntries ==
    { [title |-> <<"X">>, url |-> <<"a", "1">>, published |-> 1],
      [title |-> <<"X">>, url |-> <<"A", "1">>, published |-> NoTimestamp],
      [title |-> <<"Y">>, url |-> <<"a", "2">>, published |-> 1] }

\* What parse_rss / parse_atom return for feed number f: canonical items
\* (lines 92-99 and 119-126).
ParsedItems(f) ==
    { [title |-> e.title, url |-> e.url, source |-> FEEDS[f].name,
       published |-> e.published] : e \in FeedEntries }

\* dedupe_items, line 134: key = (item["url"] or item["title"]).lower()
DedupeKeyCaseSensitive(item) ==
    IF item.url # <<>> THEN item.url ELSE item.title

DedupeKeyWithSource(item) ==
    <<item.source>> \o Lower(IF item.url # <<>> THEN item.url ELSE item.title)

DedupeKey(item) ==
    Lower(IF item.url # <<>> THEN item.url ELSE item.title)

RECURSIVE dedupe_loop(_, _, _)
dedupe_loop(items, seen, acc) ==
    IF items = <<>> THEN acc
    ELSE LET item == Head(items)
             key == DedupeKey(item)
         IN  IF key \in seen
             THEN dedupe_loop(Tail(items), seen, acc)
             ELSE dedupe_loop(Tail(items), seen \cup {key}, Append(acc, item))

RECURSIVE dedupe_keep_last(_)
dedupe_keep_last(items) ==
    IF items = <<>> THEN <<>>
    ELSE LET item == Head(items)
             rest == dedupe_keep_last(Tail(items))
         IN  IF \E i \in DOMAIN rest : DedupeKey(rest[i]) = DedupeKey(item)
             THEN rest
             ELSE <<item>> \o rest

dedupe_items(items) == dedupe_loop(items, {}, <<>>)

\* line 175: key=lambda item: item["published"] or ""
SortKey(item) == IF item.published = NoTimestamp THEN 0 ELSE item.published

\* list.sort(reverse=True) is stable: an item goes after every item whose key
\* is greater than or equal to its own.
RECURSIVE InsertDescending(_, _)
InsertDescending(sorted, item) ==
    IF sorted = <<>> THEN <<item>>
    ELSE IF SortKey(Head(sorted)) >= SortKey(item)
         THEN <<Head(sorted)>> \o InsertDescending(Tail(sorted), item)
         ELSE <<item>> \o sorted

RECURSIVE InsertBeforeEquals(_, _)
InsertBeforeEquals(sorted, item) ==
    IF sorted = <<>> THEN <<item>>
    ELSE IF SortKey(Head(sorted)) > SortKey(item)
         THEN <<Head(sorted)>> \o InsertBeforeEquals(Tail(sorted), item)
         ELSE <<item>> \o sorted

RECURSIVE SortDescendingUnstable(_)
SortDescendingUnstable(items) ==
    IF items = <<>> THEN <<>>
    ELSE InsertBeforeEquals(SortDescendingUnstable(SubSeq(items, 1, Len(items) - 1)),
                            items[Len(items)])

RECURSIVE SortDescending(_)
SortDescending(items) ==
    IF items = <<>> THEN <<>>
    ELSE InsertDescending(SortDescending(SubSeq(items, 1, Len(items) - 1)),
                          items[Len(items)])

\* ---- the snapshot file -------------------------------------------------
\* A file is absent, not JSON, JSON that is no object, or an object whose
\* "items" is missing, null or a list.  A list element is a written item
\* (shape "item"), a record without url, a record whose url is null, or a
\* value that is no record at all.
AbsentFile == [kind |-> "absent"]
InvalidJsonFile == [kind |-> "invalid_json"]
NonObjectFile == [kind |-> "non_object"]
ObjectFile(itemsKind, elems, updated) ==
    [kind |-> "object", itemsKind |-> itemsKind, elems |-> elems, updated |-> updated]

ItemElem(item) == [shape |-> "item", item |-> item]
UrlMissingElem == [shape |-> "url_missing"]
UrlNullElem == [shape |-> "url_null"]
ScalarElem == [shape |-> "scalar"]

\* load_existing_feed: open + json.load, any exception gives the default.
DefaultFeed == ObjectFile("list", <<>>, NoTimestamp)

load_existing_feed(file) ==
    IF file.kind \in {"absent", "invalid_json"} THEN DefaultFeed ELSE file

\* line 154 raises when existing has no .get, when its items cannot be
\* iterated, when an element has no .get, or when a url has no .lower().
ExistingUrlsRaises(ex) ==
    \/ ex.kind # "object"
    \/ ex.itemsKind = "null"
    \/ /\ ex.itemsKind = "list"
       /\ \E i \in DOMAIN ex.elems : ex.elems[i].shape \in {"scalar", "url_null"}

\* line 154: {item.get("url", "").lower() for item in existing.get("items", [])}
ElemUrlAsWritten(e) == IF e.shape = "item" THEN e.item.url ELSE <<>>

ElemUrl(e) == IF e.shape = "item" THEN Lower(e.item.url) ELSE <<>>

ExistingUrlsOfNothing(ex) == {}

ExistingUrls(ex) ==
    IF ex.itemsKind = "list" THEN {ElemUrl(ex.elems[i]) : i \in DOMAIN ex.elems}
    ELSE {}

\* line 181: item["isNew"] = item.get("url", "").lower() not in existing_urls
IsNewCaseSensitive(item, urls) == item.url \notin urls

\* the key of the cross-run diff: item.get("url", "").lower()
DiffKey(item) == Lower(item.url)

IsNew(item, urls) == DiffKey(item) \notin urls

MarkNew(items, urls) ==
    [i \in DOMAIN items |->
        [title |-> items[i].title, url |-> items[i].url, source |-> items[i].source,
         published |-> items[i].published, isNew |-> IsNew(items[i], urls)]]

\* lines 173-181: dedupe, sort, flag
MergedItemsNewOnly(items, urls) ==
    SelectSeq(MarkNew(SortDescending(dedupe_items(items)), urls), LAMBDA it : it.isNew)

MergedItems(items, urls) == MarkNew(SortDescending(dedupe_items(items)), urls)

\* line 189: deduped[:50]
TruncateAfterPrevious(items) ==
    LET previous == IF existing.itemsKind = "list"
                    THEN SelectSeq(existing.elems, LAMBDA e : e.shape = "item")
                    ELSE <<>>
        all == [i \in DOMAIN previous |-> previous[i].item] \o items
    IN  SubSeq(all, 1, IF Len(all) < SNAPSHOT_LIMIT THEN Len(all) ELSE SNAPSHOT_LIMIT)

TruncateLast(items) ==
    SubSeq(items, IF Len(items) < SNAPSHOT_LIMIT THEN 1 ELSE Len(items) - SNAPSHOT_LIMIT + 1,
           Len(items))

Truncate(items) ==
    SubSeq(items, 1, IF Len(items) < SNAPSHOT_LIMIT THEN Len(items) ELSE SNAPSHOT_LIMIT)

\* line 183: new_count = sum(1 for item in deduped if item.get("isNew"))
NewCount(items) == Cardinality({i \in DOMAIN items : items[i].isNew})

\* lines 186-190: the output document
OutputDocument(marked, now, ex) ==
    [kind |-> "object", itemsKind |-> "list",
     elems |-> [i \in DOMAIN Truncate(marked) |-> ItemElem(Truncate(marked)[i])],
     updated |-> now, lastUpdated |-> ex.updated]

\* Previous contents of research-feed.json a first run may find.
OldItem == [title |-> <<"X">>, url |-> <<"a", "1">>, source |-> "Google News",
            published |-> 1, isNew |-> FALSE]

InitialFiles ==
    { AbsentFile, InvalidJsonFile, NonObjectFile,
      ObjectFile("missing", <<>>, NoTimestamp),
      ObjectFile("null", <<>>, NoTimestamp),
      ObjectFile("list", <<ScalarElem>>, NoTimestamp),
      ObjectFile("list", <<UrlNullElem>>, NoTimestamp),
      ObjectFile("list", <<UrlMissingElem>>, NoTimestamp),
      ObjectFile("list", <<ItemElem(OldItem)>>, NoTimestamp) }

\* History only: the keys a written document flags as new.
NewKeysOf(doc) ==
    {Lower(doc.elems[i].item.url) : i \in {j \in DOMAIN doc.elems : doc.elems[j].item.isNew}}

FeedInit ==
    /\ research_feed_json \in InitialFiles
    /\ pc = "idle"
    /\ clock = 0
    /\ existing = DefaultFeed
    /\ existing_urls = {}
    /\ all_items = <<>>
    /\ feedIdx = 1
    /\ deduped = <<>>
    /\ output = DefaultFeed
    /\ newSeen = {}

\* The scheduler starts a run; runs are serialized.
StartRun ==
    /\ pc \in {"idle", "done", "load_failed", "write_failed"}
    /\ clock < MaxRuns
    /\ clock' = clock + 1
    /\ pc' = "load"
    /\ existing' = DefaultFeed
    /\ existing_urls' = {}
    /\ all_items' = <<>>
    /\ feedIdx' = 1
    /\ deduped' = <<>>
    /\ output' = DefaultFeed
    /\ newSeen' = IF pc = "done" THEN newSeen \cup NewKeysOf(output) ELSE newSeen
    /\ UNCHANGED research_feed_json

\* lines 153-155; an exception of line 154 or 155 ends the run.
LoadExisting ==
    /\ pc = "load"
    /\ LET ex == load_existing_feed(research_feed_json)
       IN  IF ExistingUrlsRaises(ex)
           THEN /\ pc' = "load_failed"
                /\ UNCHANGED <<existing, existing_urls>>
           ELSE /\ pc' = "fetch"
                /\ existing' = ex
                /\ existing_urls' = ExistingUrls(ex)
    /\ UNCHANGED <<research_feed_json, clock, all_items, feedIdx, deduped, output,
                   newSeen>>

\* lines 158-163 and 170-171: fetch_url or the parser raises; the exception is
\* caught, a line goes to stderr and nothing of the feed is added.
FeedFails ==
    /\ pc = "fetch"
    /\ feedIdx <= Len(FEEDS)
    /\ feedIdx' = feedIdx + 1
    /\ UNCHANGED <<research_feed_json, pc, clock, existing, existing_urls, all_items,
                   deduped, output, newSeen>>

\* lines 164-169: the parser returns its items.
FetchAndParse ==
    /\ pc = "fetch"
    /\ feedIdx <= Len(FEEDS)
    /\ \E items \in BoundedSeq(ParsedItems(feedIdx), MaxRunItems - Len(all_items)) :
           all_items' = all_items \o items
    /\ feedIdx' = feedIdx + 1
    /\ UNCHANGED <<research_feed_json, pc, clock, existing, existing_urls,
                   deduped, output, newSeen>>

\* lines 173-190: dedupe, sort, mark, build the output document.
DedupeSortMark ==
    /\ pc = "fetch"
    /\ feedIdx > Len(FEEDS)
    /\ LET marked == MergedItems(all_items, existing_urls)
       IN  /\ deduped' = marked
           /\ output' = OutputDocument(marked, clock, existing)
    /\ pc' = "write"
    /\ UNCHANGED <<research_feed_json, clock, existing, existing_urls, all_items,
                   feedIdx, newSeen>>

\* lines 192-194: the document replaces the file.
WriteSnapshot ==
    /\ pc = "write"
    /\ research_feed_json' = output
    /\ pc' = "done"
    /\ UNCHANGED <<clock, existing, existing_urls, all_items, feedIdx, deduped, output,
                   newSeen>>

\* lines 192-194: open() or the write raises; open(.., "w") may already have
\* emptied the file.
WriteFails ==
    /\ pc = "write"
    /\ research_feed_json' \in {research_feed_json, InvalidJsonFile}
    /\ pc' = "write_failed"
    /\ UNCHANGED <<clock, existing, existing_urls, all_items, feedIdx, deduped, output,
                   newSeen>>

\* ----------------------------------------------- dedupe_items, in isolation
DedupeArgs ==
    { [title |-> t, url |-> u, source |-> "Google News", published |-> NoTimestamp] :
        t \in { <<"X">>, <<"x">>, <<"Y">> },
        u \in { <<>>, <<"a">>, <<"A">>, <<"x">> } }

DedupeIdle ==
    /\ dd_in = <<>>
    /\ dd_out = <<>>
    /\ dd_pc = "idle"

DedupeInit ==
    /\ dd_in \in BoundedSeq(DedupeArgs, MaxDedupeLen)
    /\ dd_out = <<>>
    /\ dd_pc = "in"

CallDedupe ==
    /\ dd_pc = "in"
    /\ dd_out' = dedupe_items(dd_in)
    /\ dd_pc' = "out"
    /\ UNCHANGED dd_in

\* ------------------------------------------------------------ sync_oura.py
DAYS_TO_FETCH == 90

\* Python's None where the model needs it next to numbers.
None == -1

\* Calendar days "YYYY-MM-DD" as the number YYYYMMDD: the order of the strings
\* is the order of the numbers.  NoDate is a missing or empty day.
Dates == {20240501, 20240502}
NoDate == 0

ENDPOINTS == <<"daily_sleep", "sleep", "daily_readiness", "daily_activity",
               "heartrate", "workout", "daily_spo2">>

\* A function with one more key, as dict[k] = v.
SetField(rec, k, v) == [x \in DOMAIN rec \cup {k} |-> IF x = k THEN v ELSE rec[x]]

\* dict.update: every key of fields set in rec.
Update(rec, fields) ==
    [x \in DOMAIN rec \cup DOMAIN fields |-> IF x \in DOMAIN fields THEN fields[x] ELSE rec[x]]

\* ---- what the API serves: the "data" list of each endpoint --------------
RawDailySleep ==
    { [day |-> d, score |-> 80, contributors |-> 1] : d \in Dates \cup {NoDate} }

RawSleep ==
    { [day |-> d, bedtime_start |-> p[2], bedtime_end |-> p[2], total_sleep_duration |-> p[1],
       deep_sleep_duration |-> p[2], rem_sleep_duration |-> p[2], light_sleep_duration |-> p[2],
       awake_time |-> p[2], efficiency |-> p[2], average_heart_rate |-> p[2],
       lowest_heart_rate |-> p[2], average_hrv |-> p[2], average_breath |-> p[2],
       restless_periods |-> p[2]] :
        d \in Dates, p \in {<<None, 1>>, <<3600, 2>>, <<7200, 1>>, <<7200, 2>>} }
    \cup
    { [day |-> NoDate, bedtime_start |-> 1, bedtime_end |-> 1, total_sleep_duration |-> 3600,
       deep_sleep_duration |-> 1, rem_sleep_duration |-> 1, light_sleep_duration |-> 1,
       awake_time |-> 1, efficiency |-> 1, average_heart_rate |-> 1,
       lowest_heart_rate |-> 1, average_hrv |-> 1, average_breath |-> 1,
       restless_periods |-> 1] }

RawReadiness ==
    { [day |-> d, score |-> 70, temperature_deviation |-> 1,
       temperature_trend_deviation |-> 1, contributors |-> 2] : d \in Dates \cup {NoDate} }

RawActivity ==
    { [day |-> d, score |-> 90, active_calories |-> 300, total_calories |-> 2000,
       steps |-> 9000, equivalent_walking_distance |-> 7000, high_activity_time |-> 1,
       medium_activity_time |-> 2, low_activity_time |-> 3, sedentary_time |-> 4,
       resting_time |-> 5, inactivity_alerts |-> 0, met_minutes |-> None,
       contributors |-> 3] : d \in Dates \cup {NoDate} }

\* timestamp[:10] is kept as day; bpm 0 is a falsy reading.
RawHeartRate ==
    { [day |-> 20240501, bpm |-> 60, source |-> "rest"],
      [day |-> 20240501, bpm |-> 75, source |-> "awake"],
      [day |-> 20240502, bpm |-> 62, source |-> "sleep"],
      [day |-> 20240501, bpm |-> 0, source |-> "rest"],
      [day |-> NoDate, bpm |-> 60, source |-> "rest"] }

RawWorkout ==
    { [day |-> 20240501, activity |-> "walking", calories |-> 100, distance |-> 1000,
       start_datetime |-> 1, end_datetime |-> 2, intensity |-> "easy",
       label |-> "walk", source |-> "manual"] }

RawSpo2 ==
    { [day |-> d, spo2_average |-> 97] : d \in Dates \cup {NoDate} }

RawData(endpoint) ==
    CASE endpoint = "daily_sleep" -> RawDailySleep
      [] endpoint = "sleep" -> RawSleep
      [] endpoint = "daily_readiness" -> RawReadiness
      [] endpoint = "daily_activity" -> RawActivity
      [] endpoint = "heartrate" -> RawHeartRate
      [] endpoint = "workout" -> RawWorkout
      [] endpoint = "daily_spo2" -> RawSpo2

\* ---- get_daily_sleep ... get_daily_spo2: the results lists ---------------
get_daily_sleep(data) ==
    [i \in DOMAIN data |->
        [date |-> data[i].day, score |-> data[i].score,
         contributors |-> data[i].contributors]]

get_sleep_periods(data) ==
    [i \in DOMAIN data |->
        [date |-> data[i].day,
         bedtime_start |-> data[i].bedtime_start,
         bedtime_end |-> data[i].bedtime_end,
         total_sleep_duration |-> data[i].total_sleep_duration,
         deep_sleep_duration |-> data[i].deep_sleep_duration,
         rem_sleep_duration |-> data[i].rem_sleep_duration,
         light_sleep_duration |-> data[i].light_sleep_duration,
         awake_time |-> data[i].awake_time,
         efficiency |-> data[i].efficiency,
         average_heart_rate |-> data[i].average_heart_rate,
         lowest_heart_rate |-> data[i].lowest_heart_rate,
         average_hrv |-> data[i].average_hrv,
         average_breath |-> data[i].average_breath,
         restless_periods |-> data[i].restless_periods]]

get_daily_readiness(data) ==
    [i \in DOMAIN data |->
        [date |-> data[i].day, score |-> data[i].score,
         temperature_deviation |-> data[i].temperature_deviation,
         temperature_trend_deviation |-> data[i].temperature_trend_deviation,
         contributors |-> data[i].contributors]]

get_daily_activity(data) ==
    [i \in DOMAIN data |->
        [date |-> data[i].day, score |-> data[i].score,
         active_calories |-> data[i].active_calories,
         total_calories |-> data[i].total_calories,
         steps |-> data[i].steps,
         equivalent_walking_distance |-> data[i].equivalent_walking_distance,
         high_activity_time |-> data[i].high_activity_time,
         medium_activity_time |-> data[i].medium_activity_time,
         low_activity_time |-> data[i].low_activity_time,
         sedentary_time |-> data[i].sedentary_time,
         resting_time |-> data[i].resting_time,
         inactivity_alerts |-> data[i].inactivity_alerts,
         met_minutes |-> data[i].met_minutes,
         contributors |-> data[i].contributors]]

RECURSIVE SumSeq(_)
SumSeq(s) == IF s = <<>> THEN 0 ELSE Head(s) + SumSeq(Tail(s))

RECURSIVE MinSeq(_)
MinSeq(s) ==
    IF Len(s) = 1 THEN s[1]
    ELSE LET m == MinSeq(Tail(s)) IN IF Head(s) < m THEN Head(s) ELSE m

RECURSIVE MaxSeq(_)
MaxSeq(s) ==
    IF Len(s) = 1 THEN s[1]
    ELSE LET m == MaxSeq(Tail(s)) IN IF Head(s) > m THEN Head(s) ELSE m

\* round(n / d): Python rounds a tie to the even neighbour.
RoundDiv(n, d) ==
    LET q == n \div d
        r == n % d
    IN  IF 2 * r < d THEN q
        ELSE IF 2 * r > d THEN q + 1
        ELSE IF q % 2 = 0 THEN q ELSE q + 1

Mean(s) == IF s = <<>> THEN None ELSE RoundDiv(SumSeq(s), Len(s))

RECURSIVE Bpms(_, _, _)
Bpms(data, day, sources) ==
    IF data = <<>> THEN <<>>
    ELSE LET r == Head(data)
             rest == Bpms(Tail(data), day, sources)
         IN  IF r.day = day /\ r.day # NoDate /\ r.bpm # 0 /\ r.source \in sources
             THEN <<r.bpm>> \o rest
             ELSE rest

HeartRateSources == {"rest", "sleep", "awake"}

RECURSIVE AscendingDates(_)
AscendingDates(S) ==
    IF S = {} THEN <<>>
    ELSE LET m == CHOOSE x \in S : \A y \in S : x <= y
         IN  <<m>> \o AscendingDates(S \ {m})

get_heart_rate(data) ==
    LET days == {data[i].day : i \in {j \in DOMAIN data : data[j].day # NoDate /\ data[j].bpm # 0}}
        order == AscendingDates(days)
    IN  [n \in DOMAIN order |->
            LET readings == Bpms(data, order[n], HeartRateSources)
            IN  [date |-> order[n],
                 average_hr |-> Mean(readings),
                 min_hr |-> MinSeq(readings),
                 max_hr |-> MaxSeq(readings),
                 resting_hr |-> Mean(Bpms(data, order[n], {"rest", "sleep"})),
                 awake_hr |-> Mean(Bpms(data, order[n], {"awake"}))]]

get_workouts(data) ==
    [i \in DOMAIN data |->
        [date |-> data[i].day, activity |-> data[i].activity, calories |-> data[i].calories,
         distance |-> data[i].distance, start_datetime |-> data[i].start_datetime,
         end_datetime |-> data[i].end_datetime, intensity |-> data[i].intensity,
         label |-> data[i].label, source |-> data[i].source]]

get_daily_spo2(data) ==
    [i \in DOMAIN data |-> [date |-> data[i].day, spo2_average |-> data[i].spo2_average]]

GetResults(endpoint, data) ==
    CASE endpoint = "daily_sleep" -> get_daily_sleep(data)
      [] endpoint = "sleep" -> get_sleep_periods(data)
      [] endpoint = "daily_readiness" -> get_daily_readiness(data)
      [] endpoint = "daily_activity" -> get_daily_activity(data)
      [] endpoint = "heartrate" -> get_heart_rate(data)
      [] endpoint = "workout" -> get_workouts(data)
      [] endpoint = "daily_spo2" -> get_daily_spo2(data)

\* ---- main, lines 269-365: the date-keyed merge ---------------------------
\* lines 276-279 and alike: the day record is created when the date is new,
\* then the fields are assigned.
PutDayFresh(dd, date, fields) ==
    [x \in DOMAIN dd \cup {date} |->
        IF x = date THEN Update([f \in {"date"} |-> date], fields) ELSE dd[x]]

PutDay(dd, date, fields) ==
    [x \in DOMAIN dd \cup {date} |->
        IF x = date
        THEN Update(IF date \in DOMAIN dd THEN dd[date] ELSE [f \in {"date"} |-> date], fields)
        ELSE dd[x]]

\* One loop of the merge: items without a date are skipped.
RECURSIVE FoldUpdates(_, _)
FoldUpdates(dd, updates) ==
    IF updates = <<>> THEN dd
    ELSE LET u == Head(updates)
         IN  FoldUpdates(IF u.date = NoDate THEN dd ELSE PutDay(dd, u.date, u.fields),
                         Tail(updates))

\* lines 278-279
SleepScoreFields(item) ==
    [f \in {"sleep_score", "sleep_contributors"} |->
        IF f = "sleep_score" THEN item.score ELSE item.contributors]

\* lines 297-309
SleepDetailFields(item) ==
    [f \in {"bedtime_start", "bedtime_end", "total_sleep_seconds", "deep_sleep_seconds",
            "rem_sleep_seconds", "light_sleep_seconds", "awake_seconds",
            "sleep_efficiency", "average_hrv", "lowest_hr", "average_hr_sleep",
            "average_breath", "restless_periods"} |->
        CASE f = "bedtime_start" -> item.bedtime_start
          [] f = "bedtime_end" -> item.bedtime_end
          [] f = "total_sleep_seconds" -> item.total_sleep_duration
          [] f = "deep_sleep_seconds" -> item.deep_sleep_duration
          [] f = "rem_sleep_seconds" -> item.rem_sleep_duration
          [] f = "light_sleep_seconds" -> item.light_sleep_duration
          [] f = "awake_seconds" -> item.awake_time
          [] f = "sleep_efficiency" -> item.efficiency
          [] f = "average_hrv" -> item.average_hrv
          [] f = "lowest_hr" -> item.lowest_heart_rate
          [] f = "average_hr_sleep" -> item.average_heart_rate
          [] f = "average_breath" -> item.average_breath
          [] f = "restless_periods" -> item.restless_periods]

\* lines 318-321
ReadinessFieldsNamedAsSleep(item) ==
    [f \in {"sleep_score", "temperature_deviation", "temperature_trend_deviation",
            "readiness_contributors"} |->
        CASE f = "sleep_score" -> item.score
          [] f = "temperature_deviation" -> item.temperature_deviation
          [] f = "temperature_trend_deviation" -> item.temperature_trend_deviation
          [] f = "readiness_contributors" -> item.contributors]

ReadinessFields(item) ==
    [f \in {"readiness_score", "temperature_deviation", "temperature_trend_deviation",
            "readiness_contributors"} |->
        CASE f = "readiness_score" -> item.score
          [] f = "temperature_deviation" -> item.temperature_deviation
          [] f = "temperature_trend_deviation" -> item.temperature_trend_deviation
          [] f = "readiness_contributors" -> item.contributors]

\* lines 330-340
ActivityFields(item) ==
    [f \in {"activity_score", "steps", "active_calories", "total_calories",
            "distance_meters", "high_activity_seconds", "medium_activity_seconds",
            "low_activity_seconds", "sedentary_seconds", "inactivity_alerts",
            "activity_contributors"} |->
        CASE f = "activity_score" -> item.score
          [] f = "steps" -> item.steps
          [] f = "active_calories" -> item.active_calories
          [] f = "total_calories" -> item.total_calories
          [] f = "distance_meters" -> item.equivalent_walking_distance
          [] f = "high_activity_seconds" -> item.high_activity_time
          [] f = "medium_activity_seconds" -> item.medium_activity_time
          [] f = "low_activity_seconds" -> item.low_activity_time
          [] f = "sedentary_seconds" -> item.sedentary_time
          [] f = "inactivity_alerts" -> item.inactivity_alerts
          [] f = "activity_contributors" -> item.contributors]

\* lines 349-353
HeartRateFieldsNamedAsSleep(item) ==
    [f \in {"resting_hr", "average_hr_sleep", "min_hr", "max_hr", "awake_hr"} |->
        CASE f = "resting_hr" -> item.resting_hr
          [] f = "average_hr_sleep" -> item.average_hr
          [] f = "min_hr" -> item.min_hr
          [] f = "max_hr" -> item.max_hr
          [] f = "awake_hr" -> item.awake_hr]

HeartRateFields(item) ==
    [f \in {"resting_hr", "average_hr", "min_hr", "max_hr", "awake_hr"} |->
        CASE f = "resting_hr" -> item.resting_hr
          [] f = "average_hr" -> item.average_hr
          [] f = "min_hr" -> item.min_hr
          [] f = "max_hr" -> item.max_hr
          [] f = "awake_hr" -> item.awake_hr]

\* line 362
Spo2Fields(item) == [f \in {"spo2_average"} |-> item.spo2_average]

\* line 288: item["total_sleep_duration"] or 0
OrZero(v) == IF v = None THEN 0 ELSE v

\* line 290: the new period replaces the kept one
ReplacesAlways(item, kept) == TRUE

Replaces(item, kept) ==
    OrZero(item.total_sleep_duration) > OrZero(kept.total_sleep_duration)

\* lines 283-291: sleep_by_date
RECURSIVE SleepByDate(_, _)
SleepByDate(by_date, periods) ==
    IF periods = <<>> THEN by_date
    ELSE LET item == Head(periods)
             date == item.date
         IN  SleepByDate(
                 IF date = NoDate THEN by_date
                 ELSE IF date \notin DOMAIN by_date \/ Replaces(item, by_date[date])
                      THEN [x \in DOMAIN by_date \cup {date} |->
                               IF x = date THEN item ELSE by_date[x]]
                      ELSE by_date,
                 Tail(periods))

Updates(batch, endpoint) ==
    [i \in DOMAIN batch |->
        [date |-> batch[i].date,
         fields |-> CASE endpoint = "daily_sleep" -> SleepScoreFields(batch[i])
                      [] endpoint = "sleep" -> SleepDetailFields(batch[i])
                      [] endpoint = "daily_readiness" -> ReadinessFields(batch[i])
                      [] endpoint = "daily_activity" -> ActivityFields(batch[i])
                      [] endpoint = "heartrate" -> HeartRateFields(batch[i])
                      [] endpoint = "daily_spo2" -> Spo2Fields(batch[i])]]

EmptyDict == [x \in {} |-> 0]

\* lines 294-309: one period per date, the dates of sleep_by_date in turn.
MainSleepPeriods(periods) ==
    LET by_date == SleepByDate(EmptyDict, periods)
        order == AscendingDates(DOMAIN by_date)
    IN  [n \in DOMAIN order |-> by_date[order[n]]]

\* lines 269-362
MergeDaily(f) ==
    LET d1 == FoldUpdates(EmptyDict, Updates(f["daily_sleep"], "daily_sleep"))
        d2 == FoldUpdates(d1, Updates(MainSleepPeriods(f["sleep"]), "sleep"))
        d3 == FoldUpdates(d2, Updates(f["daily_readiness"], "daily_readiness"))
        d4 == FoldUpdates(d3, Updates(f["daily_activity"], "daily_activity"))
        d5 == FoldUpdates(d4, Updates(f["heartrate"], "heartrate"))
    IN  FoldUpdates(d5, Updates(f["daily_spo2"], "daily_spo2"))

\* line 365: sorted(daily_data.keys(), reverse=True)
DatesOldestFirst(S) == AscendingDates(S)

RECURSIVE DescendingDates(_)
DescendingDates(S) ==
    IF S = {} THEN <<>>
    ELSE LET m == CHOOSE x \in S : \A y \in S : x >= y
         IN  <<m>> \o DescendingDates(S \ {m})

SortedData(dd) ==
    LET order == DescendingDates(DOMAIN dd) IN [n \in DOMAIN order |-> dd[order[n]]]

NoReport == [kind |-> "none"]
\* lines 230-234
ErrorReport == [kind |-> "error", error |-> "No OURA_PAT configured", data |-> None]
\* lines 368-376
DaysReport(sorted_data, workouts) ==
    [kind |-> "days", days_requested |-> DAYS_TO_FETCH, days_returned |-> Len(sorted_data),
     workouts |-> workouts, days |-> sorted_data]

NoBatches == [e \in Range(ENDPOINTS) |-> <<>>]

OuraIdle ==
    /\ oura_data_json = NoReport
    /\ oura_pc = "idle"
    /\ pat = ""
    /\ endpointIdx = 1
    /\ fetched = NoBatches
    /\ rawRecords = 0
    /\ daily_data = EmptyDict
    /\ report = NoReport

OuraInit ==
    /\ oura_data_json = NoReport
    /\ oura_pc = "start"
    /\ pat \in {"", "token"}
    /\ endpointIdx = 1
    /\ fetched = NoBatches
    /\ rawRecords = 0
    /\ daily_data = EmptyDict
    /\ report = NoReport

\* lines 222-238: without a token the error report is built.
NoToken ==
    /\ oura_pc = "start"
    /\ pat = ""
    /\ report' = ErrorReport
    /\ oura_pc' = "write"
    /\ UNCHANGED <<oura_data_json, pat, endpointIdx, fetched, rawRecords, daily_data>>

\* lines 240-244
HaveToken ==
    /\ oura_pc = "start"
    /\ pat # ""
    /\ oura_pc' = "fetch"
    /\ UNCHANGED <<oura_data_json, pat, endpointIdx, fetched, rawRecords, daily_data, report>>

\* fetch_oura_data returns None (HTTP error, timeout, a body that is not JSON:
\* lines 46-51) or something falsy; get_* returns [].
EndpointFails ==
    /\ oura_pc = "fetch"
    /\ endpointIdx <= Len(ENDPOINTS)
    /\ fetched' = [fetched EXCEPT ![ENDPOINTS[endpointIdx]] = <<>>]
    /\ endpointIdx' = endpointIdx + 1
    /\ UNCHANGED <<oura_data_json, oura_pc, pat, rawRecords, daily_data, report>>

\* The body is JSON of the documented shape: get_* builds its results.
EndpointReturns ==
    /\ oura_pc = "fetch"
    /\ endpointIdx <= Len(ENDPOINTS)
    /\ \E data \in BoundedSeq(RawData(ENDPOINTS[endpointIdx]), MaxOuraRecords - rawRecords) :
          /\ fetched' = [fetched EXCEPT ![ENDPOINTS[endpointIdx]] =
                            GetResults(ENDPOINTS[endpointIdx], data)]
          /\ rawRecords' = rawRecords + Len(data)
    /\ endpointIdx' = endpointIdx + 1
    /\ UNCHANGED <<oura_data_json, oura_pc, pat, daily_data, report>>

\* The body is JSON, truthy, and not of the documented shape (a list, an object
\* whose "data" is null, a "data" element that is no object): data.get, the
\* for loop or item.get raises outside any try, and the run ends there.
EndpointMalformed ==
    /\ oura_pc = "fetch"
    /\ endpointIdx <= Len(ENDPOINTS)
    /\ oura_pc' = "crashed"
    /\ UNCHANGED <<oura_data_json, pat, endpointIdx, fetched, rawRecords, daily_data, report>>

\* lines 269-376
MergeAndReport ==
    /\ oura_pc = "fetch"
    /\ endpointIdx > Len(ENDPOINTS)
    /\ daily_data' = MergeDaily(fetched)
    /\ report' = DaysReport(SortedData(MergeDaily(fetched)), fetched["workout"])
    /\ oura_pc' = "write"
    /\ UNCHANGED <<oura_data_json, pat, endpointIdx, fetched, rawRecords>>

\* lines 235-237 and 379-381
WriteReport ==
    /\ oura_pc = "write"
    /\ oura_data_json' = report
    /\ oura_pc' = "done"
    /\ UNCHANGED <<pat, endpointIdx, fetched, rawRecords, daily_data, report>>

\* open() or the write raises; open(.., "w") may already have emptied the file.
WriteReportFails ==
    /\ oura_pc = "write"
    /\ oura_data_json' \in {oura_data_json, InvalidJsonFile}
    /\ oura_pc' = "write_failed"
    /\ UNCHANGED <<pat, endpointIdx, fetched, rawRecords, daily_data, report>>

\* ------------------------------------------------ update_weekly_content.py
RECIPE_FEEDS == <<
    [name |-> "Skinnytaste", type |-> "rss"],
    [name |-> "Serious Eats", type |-> "rss"],
    [name |-> "Allrecipes", type |-> "rss"],
    [name |-> "EatingWell", type |-> "rss"] >>

LONGEVITY_FEEDS == <<
    [name |-> "Huberman Lab", type |-> "rss"],
    [name |-> "Peter Attia", type |-> "rss"] >>

WeeklyFeeds == RECIPE_FEEDS \o LONGEVITY_FEEDS

\* lines 65-107, each day by its day and type
WORKOUT_TEMPLATE == <<
    [day |-> "Monday", type |-> "Upper Body Strength"],
    [day |-> "Wednesday", type |-> "Lower Body Strength"],
    [day |-> "Friday", type |-> "PT Session with Josh"],
    [day |-> "Saturday", type |-> "Cardio + Mobility"] >>

SOURCES_SHOWN == 5

\* (title, url, published) triples the weekly feeds serve: a plain recipe, a
\* title with the marker "top", a title with a digit, a url without /recipe.
WeeklyEntries ==
    { [title |-> <<"S", "o", "u", "p">>, url |-> <<"/", "r", "e", "c", "i", "p", "e", "/", "a">>,
       published |-> 1],
      [title |-> <<"T", "o", "p">>, url |-> <<"/", "r", "e", "c", "i", "p", "e", "/", "b">>,
       published |-> 1],
      [title |-> <<"5">>, url |-> <<"/", "R", "E", "C", "I", "P", "E", "/", "a">>,
       published |-> NoTimestamp],
      [title |-> <<"S", "o", "u", "p">>, url |-> <<"/", "b">>, published |-> NoTimestamp] }

WeeklyParsedItems(f) ==
    { [title |-> e.title, url |-> e.url, source |-> WeeklyFeeds[f].name,
       published |-> e.published] : e \in WeeklyEntries }

\* sub in s
Contains(s, sub) ==
    \E i \in 1..(Len(s) - Len(sub) + 1) : SubSeq(s, i, i + Len(sub) - 1) = sub

Digits == {"0", "1", "2", "3", "4", "5", "6", "7", "8", "9"}

\* line 384-387
ListicleMarkers ==
    { <<"b", "e", "s", "t">>, <<"f", "a", "v", "o", "r", "i", "t", "e">>,
      <<"r", "o", "u", "n", "d", "u", "p">>, <<"l", "i", "s", "t">>,
      <<"c", "o", "l", "l", "e", "c", "t", "i", "o", "n">>, <<"g", "u", "i", "d", "e">>,
      <<"r", "e", "v", "i", "e", "w">>, <<"i", "d", "e", "a", "s">>,
      <<"m", "e", "a", "l", " ", "p", "l", "a", "n">>,
      <<"m", "e", "a", "l", " ", "p", "r", "e", "p">>, <<"t", "o", "p">>,
      <<"w", "e", "e", "k">>, <<"g", "a", "l", "l", "e", "r", "y">> }

\* line 382: (item.get("source") or "").lower(), for the names of the feeds
LowerName(name) ==
    CASE name = "Skinnytaste" -> "skinnytaste"
      [] name = "Serious Eats" -> "serious eats"
      [] name = "Allrecipes" -> "allrecipes"
      [] name = "EatingWell" -> "eatingwell"
      [] name = "Huberman Lab" -> "huberman lab"
      [] name = "Peter Attia" -> "peter attia"
      [] OTHER -> name

\* lines 378-392
is_recipe_item(item) ==
    LET title == Lower(item.title)
        url == Lower(item.url)
        recipe_sources == {"skinnytaste", "serious eats", "simply recipes", "budget bytes"}
        source == LowerName(item.source)
        has_recipe_url == \/ Contains(url, <<"/", "r", "e", "c", "i", "p", "e">>)
                          \/ Contains(url, <<"/", "r", "e", "c", "i", "p", "e", "s", "/">>)
        has_listicle == \E marker \in ListicleMarkers : Contains(title, marker)
        has_list_number == \E i \in DOMAIN item.title : item.title[i] \in Digits
    IN  IF has_listicle \/ has_list_number THEN FALSE
        ELSE has_recipe_url \/ source \in recipe_sources

RECURSIVE Filter(_)
Filter(items) ==
    IF items = <<>> THEN <<>>
    ELSE IF is_recipe_item(Head(items)) THEN <<Head(items)>> \o Filter(Tail(items))
         ELSE Filter(Tail(items))

\* lines 411-413
FeedItemsResult(items) == SortDescending(dedupe_items(items))

\* ---- the completion calls ------------------------------------------------
\* A reply is a failure (no key, no package, an API error, text that is not
\* JSON, JSON that is no object: every one ends in "return []" or "return
\* None"), or a JSON object; of the object only the value under the key the
\* caller reads matters: missing, null, or a list.
ReplyFailures == {"no_api_key", "no_package", "api_error", "not_json", "json_non_object"}

FailedReply(why) == [kind |-> why]
ObjectReply(valueKind, value) == [kind |-> "object", valueKind |-> valueKind, value |-> value]

\* A plan as the prompt asks for it, and a list that is not one.
GeneratedWorkouts == <<
    [day |-> "Monday", type |-> "Upper Body Strength"],
    [day |-> "Wednesday", type |-> "Lower Body Strength"],
    [day |-> "Friday", type |-> "PT Session with Josh"],
    [day |-> "Saturday", type |-> "Cardio + Mobility and more"] >>
GeneratedMeals == << [day |-> "Monday", breakfast |-> "eggs", lunch |-> "salad", dinner |-> "fish"] >>
OffSchemaList == << [note |-> "sorry, no plan today"] >>

WorkoutReplies ==
    {FailedReply(w) : w \in ReplyFailures}
    \cup {ObjectReply("missing", <<>>), ObjectReply("null", <<>>), ObjectReply("list", <<>>),
          ObjectReply("list", GeneratedWorkouts), ObjectReply("list", OffSchemaList)}

MealReplies ==
    {FailedReply(w) : w \in ReplyFailures}
    \cup {ObjectReply("missing", <<>>), ObjectReply("null", <<>>), ObjectReply("list", <<>>),
          ObjectReply("list", GeneratedMeals), ObjectReply("list", OffSchemaList)}

\* A Python value that is None or a list.
PyNone == [py |-> "None"]
PyList(l) == [py |-> "list", list |-> l]
Truthy(v) == v.py = "list" /\ v.list # <<>>

\* generate_workouts_with_claude / generate_meal_plan_with_claude:
\* data.get(key, []) of an object, [] after any failure.
Generated(reply) ==
    IF reply.kind # "object" THEN PyList(<<>>)
    ELSE IF reply.valueKind = "missing" THEN PyList(<<>>)
    ELSE IF reply.valueKind = "null" THEN PyNone
    ELSE PyList(reply.value)

\* line 430: workout_items or WORKOUT_TEMPLATE
WorkoutsWritten(items) == IF Truthy(items) THEN items ELSE PyList(WORKOUT_TEMPLATE)

NoFile == [kind |-> "none"]

WeeklyIdle ==
    /\ w_pc = "idle"
    /\ w_idx = 1
    /\ w_all_items = <<>>
    /\ recipe_items = <<>>
    /\ longevity_items = <<>>
    /\ workout_reply = FailedReply("no_api_key")
    /\ workout_items = PyList(<<>>)
    /\ meal_reply = FailedReply("no_api_key")
    /\ meal_plan = PyList(<<>>)
    /\ weekly_recipes_json = NoFile
    /\ weekly_workouts_json = NoFile

\* fetch_feed_items, lines 397-402 and 409-410: a feed that fails adds nothing.
WeeklyFeedFails ==
    /\ w_pc = "feeds"
    /\ w_idx <= Len(RECIPE_FEEDS)
    /\ w_idx' = w_idx + 1
    /\ UNCHANGED <<w_pc, w_all_items, recipe_items, longevity_items, workout_reply,
                   workout_items, meal_reply, meal_plan, weekly_recipes_json,
                   weekly_workouts_json>>

\* fetch_feed_items, lines 403-408
WeeklyFetchAndParse ==
    /\ w_pc = "feeds"
    /\ w_idx <= Len(RECIPE_FEEDS)
    /\ \E items \in BoundedSeq(WeeklyParsedItems(w_idx), MaxWeeklyItems - Len(w_all_items)) :
          w_all_items' = w_all_items \o items
    /\ w_idx' = w_idx + 1
    /\ UNCHANGED <<w_pc, recipe_items, longevity_items, workout_reply,
                   workout_items, meal_reply, meal_plan, weekly_recipes_json,
                   weekly_workouts_json>>

\* line 417: the recipe feeds are done; dedupe, sort, keep the recipes.
RecipeFeedsDone ==
    /\ w_pc = "feeds"
    /\ w_idx = Len(RECIPE_FEEDS) + 1
    /\ recipe_items' = Filter(FeedItemsResult(w_all_items))
    /\ w_all_items' = <<>>
    /\ w_pc' = "longevity"
    /\ UNCHANGED <<w_idx, longevity_items, workout_reply, workout_items, meal_reply,
                   meal_plan, weekly_recipes_json, weekly_workouts_json>>

\* line 418: the feeds of LONGEVITY_FEEDS in turn.
LongevityFeedFails ==
    /\ w_pc = "longevity"
    /\ w_idx <= Len(WeeklyFeeds)
    /\ w_idx' = w_idx + 1
    /\ UNCHANGED <<w_pc, w_all_items, recipe_items, longevity_items, workout_reply,
                   workout_items, meal_reply, meal_plan, weekly_recipes_json,
                   weekly_workouts_json>>

LongevityFetchAndParse ==
    /\ w_pc = "longevity"
    /\ w_idx <= Len(WeeklyFeeds)
    /\ \E items \in BoundedSeq(WeeklyParsedItems(w_idx), MaxWeeklyItems - Len(w_all_items)) :
          w_all_items' = w_all_items \o items
    /\ w_idx' = w_idx + 1
    /\ UNCHANGED <<w_pc, recipe_items, longevity_items, workout_reply,
                   workout_items, meal_reply, meal_plan, weekly_recipes_json,
                   weekly_workouts_json>>

LongevityFeedsDone ==
    /\ w_pc = "longevity"
    /\ w_idx = Len(WeeklyFeeds) + 1
    /\ longevity_items' = FeedItemsResult(w_all_items)
    /\ w_all_items' = <<>>
    /\ w_pc' = "workouts"
    /\ UNCHANGED <<w_idx, recipe_items, workout_reply, workout_items, meal_reply,
                   meal_plan, weekly_recipes_json, weekly_workouts_json>>

\* line 419
GenerateWorkouts ==
    /\ w_pc = "workouts"
    /\ \E reply \in WorkoutReplies :
          /\ workout_reply' = reply
          /\ workout_items' = Generated(reply)
    /\ w_pc' = "meals"
    /\ UNCHANGED <<w_idx, w_all_items, recipe_items, longevity_items, meal_reply,
                   meal_plan, weekly_recipes_json, weekly_workouts_json>>

\* line 420
GenerateMealPlan ==
    /\ w_pc = "meals"
    /\ \E reply \in MealReplies :
          /\ meal_reply' = reply
          /\ meal_plan' = Generated(reply)
    /\ w_pc' = "write_recipes"
    /\ UNCHANGED <<w_idx, w_all_items, recipe_items, longevity_items, workout_reply,
                   workout_items, weekly_recipes_json, weekly_workouts_json>>

\* lines 422-426 and 434-436
WriteRecipes ==
    /\ w_pc = "write_recipes"
    /\ weekly_recipes_json' = [kind |-> "recipes", meals |-> meal_plan, items |-> recipe_items]
    /\ w_pc' = "write_workouts"
    /\ UNCHANGED <<w_idx, w_all_items, recipe_items, longevity_items, workout_reply,
                   workout_items, meal_reply, meal_plan, weekly_workouts_json>>

\* lines 428-432 and 438-440
WriteWorkouts ==
    /\ w_pc = "write_workouts"
    /\ weekly_workouts_json' =
          [kind |-> "workouts", workouts |-> WorkoutsWritten(workout_items),
           sources |-> SubSeq(longevity_items, 1,
                              IF Len(longevity_items) < SOURCES_SHOWN
                              THEN Len(longevity_items) ELSE SOURCES_SHOWN)]
    /\ w_pc' = "done"
    /\ UNCHANGED <<w_idx, w_all_items, recipe_items, longevity_items, workout_reply,
                   workout_items, meal_reply, meal_plan, weekly_recipes_json>>

\* either open() or write raises; open(.., "w") may already have emptied the
\* file that was being written.
WeeklyWriteFails ==
    /\ w_pc \in {"write_recipes", "write_workouts"}
    /\ IF w_pc = "write_recipes"
       THEN /\ weekly_recipes_json' \in {weekly_recipes_json, InvalidJsonFile}
            /\ UNCHANGED weekly_workouts_json
       ELSE /\ weekly_workouts_json' \in {weekly_workouts_json, InvalidJsonFile}
            /\ UNCHANGED weekly_recipes_json
    /\ w_pc' = "write_failed"
    /\ UNCHANGED <<w_idx, w_all_items, recipe_items, longevity_items, workout_reply,
                   workout_items, meal_reply, meal_plan>>

\* --------------------------------------------------- analyze_nutrition.py
\* fetch_gist_meals: None (request failed, no meal-logs.json, content that is
\* not JSON), or the parsed content: an object with its "meals", or JSON that
\* is falsy, or truthy JSON that is no object.
MealLogs == { [kind |-> "object", meals |-> m] : m \in 0..2 }
            \cup { [kind |-> "falsy"], [kind |-> "non_object"] }

NoMealData == [kind |-> "None"]

\* analyze_with_claude: the completion's JSON is returned as it is: the
\* analysis asked for, {} or [], an object with other keys, an object whose
\* strengths, gaps or suggestions have no len(), or truthy JSON that is no object.
AnalysisReplies ==
    {FailedReply(w) : w \in {"no_api_key", "no_package", "api_error", "not_json"}}
    \cup {[kind |-> "json", shape |-> sh] : sh \in {"analysis", "empty", "off_schema_object",
                                                     "unsized_fields", "non_object"}}

\* lines 58-144; lines 69-72 return None without a call when there are no meals.
analyze_with_claude(data, reply) ==
    IF reply.kind \in {"no_api_key", "no_package"} THEN [py |-> "None"]
    ELSE IF data.meals = 0 THEN [py |-> "None"]
    ELSE IF reply.kind # "json" THEN [py |-> "None"]
    ELSE [py |-> "json", shape |-> reply.shape]

NutritionIdle ==
    /\ n_pc = "idle"
    /\ gist_id = ""
    /\ meal_data = NoMealData
    /\ analysis_reply = FailedReply("no_api_key")
    /\ analysis = [py |-> "None"]
    /\ nutrition_report_json = NoFile

\* lines 151-159
NoGistId ==
    /\ n_pc = "start"
    /\ gist_id = ""
    /\ n_pc' = "write_error_report"
    /\ UNCHANGED <<gist_id, meal_data, analysis_reply, analysis, nutrition_report_json>>

\* lines 160-163
WriteErrorReport ==
    /\ n_pc = "write_error_report"
    /\ nutrition_report_json' =
          [kind |-> "error", analysis |-> [py |-> "None"],
           error |-> "No GIST_ID configured. Set up sync in DeanOS Settings first."]
    /\ n_pc' = "done"
    /\ UNCHANGED <<gist_id, meal_data, analysis_reply, analysis>>

\* lines 166-169: no meal data, the run returns without writing.
GistFetchFails ==
    /\ n_pc = "start"
    /\ gist_id # ""
    /\ \E data \in {NoMealData, [kind |-> "falsy"]} : meal_data' = data
    /\ n_pc' = "returned_without_report"
    /\ UNCHANGED <<gist_id, analysis_reply, analysis, nutrition_report_json>>

\* line 166: meal data arrives
GistFetched ==
    /\ n_pc = "start"
    /\ gist_id # ""
    /\ \E data \in MealLogs \ {[kind |-> "falsy"]} : meal_data' = data
    /\ n_pc' = "analyze"
    /\ UNCHANGED <<gist_id, analysis_reply, analysis, nutrition_report_json>>

\* lines 172-180; meal_data.get of lines 69, 177 and 179 raises on a non-object.
Analyze ==
    /\ n_pc = "analyze"
    /\ \E reply \in AnalysisReplies :
          /\ analysis_reply' = reply
          /\ IF meal_data.kind = "non_object"
             THEN /\ n_pc' = "crashed"
                  /\ UNCHANGED analysis
             ELSE /\ n_pc' = "write"
                  /\ analysis' = analyze_with_claude(meal_data, reply)
    /\ UNCHANGED <<gist_id, meal_data, nutrition_report_json>>

\* lines 183-191: the report is written; the summary after it reads
\* analysis.get(...) and len(...), which raise on a truthy analysis that is no
\* object of lists.
WriteNutritionReport ==
    /\ n_pc = "write"
    /\ nutrition_report_json' =
          [kind |-> "report", analysis |-> analysis, mealsAnalyzed |-> meal_data.meals]
    /\ n_pc' = IF analysis.py = "json" /\ analysis.shape \in {"unsized_fields", "non_object"}
               THEN "crashed_after_write" ELSE "done"
    /\ UNCHANGED <<gist_id, meal_data, analysis_reply, analysis>>

NutritionWriteFails ==
    /\ n_pc \in {"write", "write_error_report"}
    /\ nutrition_report_json' \in {nutrition_report_json, InvalidJsonFile}
    /\ n_pc' = "write_failed"
    /\ UNCHANGED <<gist_id, meal_data, analysis_reply, analysis>>

\* ------------------------------------------------------ fetch_goodreads.py
\* An <item> of the shelf feed: its title after strip() and its link.
ShelfItems == { [title |-> t, link |-> l] : t \in {"", "Dune"}, l \in {"", "/book/1"} }

\* parse_goodreads_rss, lines 38-58: items without a title are skipped.
RECURSIVE parse_goodreads_rss(_)
parse_goodreads_rss(feed) ==
    IF feed = <<>> THEN <<>>
    ELSE IF Head(feed).title = "" THEN parse_goodreads_rss(Tail(feed))
         ELSE <<Head(feed)>> \o parse_goodreads_rss(Tail(feed))

GoodreadsIdle ==
    /\ g_pc = "idle"
    /\ g_env = [user_id |-> "", rss_key |-> ""]
    /\ books = <<>>
    /\ goodreads_feed_json = NoFile

\* lines 65-67
MissingCredentials ==
    /\ g_pc = "start"
    /\ g_env.user_id = "" \/ g_env.rss_key = ""
    /\ g_pc' = "exit_1_no_credentials"
    /\ UNCHANGED <<g_env, books, goodreads_feed_json>>

\* lines 73-77
GoodreadsFetchFails ==
    /\ g_pc = "start"
    /\ g_env.user_id # "" /\ g_env.rss_key # ""
    /\ g_pc' = "exit_1_fetch"
    /\ UNCHANGED <<g_env, books, goodreads_feed_json>>

\* lines 79-83
GoodreadsParseFails ==
    /\ g_pc = "start"
    /\ g_env.user_id # "" /\ g_env.rss_key # ""
    /\ g_pc' = "exit_1_parse"
    /\ UNCHANGED <<g_env, books, goodreads_feed_json>>

\* lines 73-90
GoodreadsParsed ==
    /\ g_pc = "start"
    /\ g_env.user_id # "" /\ g_env.rss_key # ""
    /\ \E feed \in BoundedSeq(ShelfItems, MaxBooks) : books' = parse_goodreads_rss(feed)
    /\ g_pc' = "write"
    /\ UNCHANGED <<g_env, goodreads_feed_json>>

\* lines 92-94
WriteBooks ==
    /\ g_pc = "write"
    /\ goodreads_feed_json' = [kind |-> "books", books |-> books]
    /\ g_pc' = "done"
    /\ UNCHANGED <<g_env, books>>

GoodreadsWriteFails ==
    /\ g_pc = "write"
    /\ goodreads_feed_json' \in {goodreads_feed_json, InvalidJsonFile}
    /\ g_pc' = "write_failed"
    /\ UNCHANGED <<g_env, books>>

\* ---- the three scripts, one per behaviour --------------------------------
ContentIdle == job = "none" /\ WeeklyIdle /\ NutritionIdle /\ GoodreadsIdle

ContentInit ==
    /\ job \in {"weekly", "nutrition", "goodreads"}
    /\ w_pc = IF job = "weekly" THEN "feeds" ELSE "idle"
    /\ w_idx = 1
    /\ w_all_items = <<>>
    /\ recipe_items = <<>>
    /\ longevity_items = <<>>
    /\ workout_reply = FailedReply("no_api_key")
    /\ workout_items = PyList(<<>>)
    /\ meal_reply = FailedReply("no_api_key")
    /\ meal_plan = PyList(<<>>)
    /\ weekly_recipes_json = NoFile
    /\ weekly_workouts_json = NoFile
    /\ n_pc = IF job = "nutrition" THEN "start" ELSE "idle"
    /\ gist_id \in IF job = "nutrition" THEN {"", "gist"} ELSE {""}
    /\ meal_data = NoMealData
    /\ analysis_reply = FailedReply("no_api_key")
    /\ analysis = [py |-> "None"]
    /\ nutrition_report_json = NoFile
    /\ g_pc = IF job = "goodreads" THEN "start" ELSE "idle"
    /\ g_env \in IF job = "goodreads"
                 THEN [user_id : {"", "u"}, rss_key : {"", "k"}]
                 ELSE {[user_id |-> "", rss_key |-> ""]}
    /\ books = <<>>
    /\ goodreads_feed_json = NoFile

\* ------------------------------------------ sanitize_xml, parse_rss, parse_atom
\* A payload is its markup (sound, broken, or for RSS sound without a
\* <channel>) and its records; a record is the text of its title, its link
\* and its date. Text is a sequence of characters; the characters below 32
\* are written by their code point.
Ord(ch) ==
    CASE ch = "U+0000" -> 0
      [] ch = "U+0001" -> 1
      [] ch = "\t" -> 9
      [] ch = "\n" -> 10
      [] ch = "\r" -> 13
      [] ch = "U+001F" -> 31
      [] ch = " " -> 32
      [] ch = "U+FFFE" -> 65534
      [] OTHER -> 65

\* sanitize_xml, line 75: the characters that are kept
KeptChar(ch) == ch = "\t" \/ ch = "\n" \/ ch = "\r" \/ Ord(ch) >= 32

\* the characters ET.fromstring accepts (XML 1.0, production Char)
IsXmlChar(ch) == Ord(ch) \in {9, 10, 13} \/ (Ord(ch) >= 32 /\ Ord(ch) < 65534)

\* str.isspace() on the characters of the model
IsSpace(ch) == ch \in {" ", "\t", "\n", "\r", "U+001F"}

\* str.strip()
RECURSIVE LStrip(_)
LStrip(s) == IF s # <<>> /\ IsSpace(Head(s)) THEN LStrip(Tail(s)) ELSE s

RECURSIVE RStrip(_)
RStrip(s) ==
    IF s # <<>> /\ IsSpace(s[Len(s)]) THEN RStrip(SubSeq(s, 1, Len(s) - 1)) ELSE s

Strip(s) == LStrip(RStrip(s))

\* The link of a record: <link>text</link> in RSS, <link href="text"/> in
\* Atom, where a <link> element may also come without href. A record without
\* any link element reads as the empty text.
LinkText(text) == [kind |-> "text", text |-> text]
LinkWithoutHref == [kind |-> "no_href"]

\* parse_date, lines 46-66, on the date texts of the model
PubTexts == {"", "2024-01-01T00:00:00Z"}

parse_date(value) ==
    CASE value = "" -> NoTimestamp
      [] value = "2024-01-01T00:00:00Z" -> 1
      [] OTHER -> NoTimestamp

TitleTexts == { <<>>, <<" ">>, <<"A">>, <<"A", "U+0001">> }
LinkTexts == { <<>>, <<"U", " ">>, <<"U+0001", "u">> }

Records(type) ==
    [title : TitleTexts,
     link : {LinkText(t) : t \in LinkTexts}
            \cup (IF type = "atom" THEN {LinkWithoutHref} ELSE {}),
     pub : PubTexts]

Payloads(type) ==
    [markup : {"sound", "broken"} \cup (IF type = "rss" THEN {"no_channel"} ELSE {}),
     records : BoundedSeq(Records(type), MaxRecords)]

\* sanitize_xml, lines 69-77
SanitizeText(s) == SelectSeq(s, KeptChar)

sanitize_xml(data) ==
    [data EXCEPT !.records =
        [i \in DOMAIN @ |->
            [@[i] EXCEPT !.title = SanitizeText(@),
                         !.link = IF @.kind = "text" THEN LinkText(SanitizeText(@.text))
                                  ELSE @]]]

\* ET.fromstring raises ParseError
FromStringRaises(data) ==
    \/ data.markup = "broken"
    \/ \E i \in DOMAIN data.records :
          \/ \E k \in DOMAIN data.records[i].title : ~IsXmlChar(data.records[i].title[k])
          \/ /\ data.records[i].link.kind = "text"
             /\ \E k \in DOMAIN data.records[i].link.text :
                   ~IsXmlChar(data.records[i].link.text[k])

Raised == [kind |-> "raised"]
Returned(items) == [kind |-> "items", items |-> items]

\* lines 86-99 and 107-126: the loop over the records
RECURSIVE ParseRecords(_, _)
ParseRecords(records, source) ==
    IF records = <<>> THEN <<>>
    ELSE LET r == Head(records)
             title == Strip(r.title)
             link == Strip(r.link.text)
         IN  IF title = <<>> \/ link = <<>>
             THEN ParseRecords(Tail(records), source)
             ELSE << [title |-> title, url |-> link, source |-> source,
                      published |-> parse_date(r.pub)] >>
                  \o ParseRecords(Tail(records), source)

\* parse_rss, lines 80-100 (the same in update_weekly_content.py, 156-176)
parse_rss(data, source) ==
    LET clean == sanitize_xml(data)
    IN  IF FromStringRaises(clean) THEN Raised
        ELSE IF clean.markup = "no_channel" THEN Returned(<<>>)
        ELSE Returned(ParseRecords(clean.records, source))

\* line 112: link_elem.attrib.get("href") is None, and None has no strip()
HrefRaises(data) == \E i \in DOMAIN data.records : data.records[i].link.kind = "no_href"

\* parse_atom of update_research_feed.py, lines 103-127
parse_atom(data, source) ==
    IF FromStringRaises(data) \/ HrefRaises(data) THEN Raised
    ELSE Returned(ParseRecords(data.records, source))

\* parse_atom of update_weekly_content.py, lines 179-203
weekly_parse_atom(data, source) ==
    LET clean == sanitize_xml(data)
    IN  IF FromStringRaises(clean) \/ HrefRaises(clean) THEN Raised
        ELSE Returned(ParseRecords(clean.records, source))

ParseIdle ==
    /\ parse_job = "none"
    /\ parse_type = "rss"
    /\ xml_data = [markup |-> "sound", records |-> <<>>]
    /\ parsed = Returned(<<>>)
    /\ parse_pc = "idle"

ParseInit ==
    /\ parse_job \in {"research", "weekly"}
    /\ parse_type \in {"rss", "atom"}
    /\ xml_data \in Payloads(parse_type)
    /\ parsed = Returned(<<>>)
    /\ parse_pc = "in"

\* lines 164-167 (update_weekly_content.py 403-406)
CallParser ==
    /\ parse_pc = "in"
    /\ parsed' = IF parse_type = "atom"
                 THEN IF parse_job = "research" THEN parse_atom(xml_data, "feed")
                      ELSE weekly_parse_atom(xml_data, "feed")
                 ELSE parse_rss(xml_data, "feed")
    /\ parse_pc' = "out"
    /\ UNCHANGED <<parse_job, parse_type, xml_data>>

\* ------------------------------------------- a job run twice, same payloads
\* The sources return the same payloads to both runs; the clock and the
\* previous snapshot a run finds are the run's own.
FeedPool == UNION {ParsedItems(f) : f \in DOMAIN FEEDS}
WeeklyPool == UNION {WeeklyParsedItems(f) : f \in DOMAIN WeeklyFeeds}

TaggedRaw == UNION { {[endpoint |-> e, record |-> r] : r \in RawData(e)} : e \in Range(ENDPOINTS) }

\* the records of one endpoint, in the order served
RECURSIVE BatchOf(_, _)
BatchOf(tagged, e) ==
    IF tagged = <<>> THEN <<>>
    ELSE IF Head(tagged).endpoint = e
         THEN <<Head(tagged).record>> \o BatchOf(Tail(tagged), e)
         ELSE BatchOf(Tail(tagged), e)

\* sync_oura.py lines 248-266: the results of the seven get_* calls
FetchedFrom(tagged) == [e \in Range(ENDPOINTS) |-> GetResults(e, BatchOf(tagged, e))]

PreviousUrlSets == { {}, {<<"a", "1">>}, {<<"a", "2">>} }

RerunIdle ==
    /\ rr_job = "none"
    /\ rr_payload = <<>>
    /\ rr_results = <<>>

RerunInit ==
    /\ rr_job \in {"research", "weekly", "health"}
    /\ rr_payload \in CASE rr_job = "research" -> BoundedSeq(FeedPool, MaxRerunRecords)
                        [] rr_job = "weekly" -> BoundedSeq(WeeklyPool, MaxRerunRecords)
                        [] rr_job = "health" -> BoundedSeq(TaggedRaw, MaxRerunRecords)
    /\ rr_results = <<>>

\* update_research_feed.py lines 153-181
RunResearchFeed ==
    /\ rr_job = "research"
    /\ Len(rr_results) < 2
    /\ \E urls \in PreviousUrlSets :
          rr_results' = Append(rr_results, MergedItems(rr_payload, urls))
    /\ UNCHANGED <<rr_job, rr_payload>>

\* update_weekly_content.py lines 395-413
RunWeeklyFeeds ==
    /\ rr_job = "weekly"
    /\ Len(rr_results) < 2
    /\ rr_results' = Append(rr_results, FeedItemsResult(rr_payload))
    /\ UNCHANGED <<rr_job, rr_payload>>

\* sync_oura.py lines 248-365
RunHealthSync ==
    /\ rr_job = "health"
    /\ Len(rr_results) < 2
    /\ rr_results' = Append(rr_results, SortedData(MergeDaily(FetchedFrom(rr_payload))))
    /\ UNCHANGED <<rr_job, rr_payload>>

\* ---------------------------------------------- the sort, in isolation
\* What dedupe_items hands to the sort: items with pairwise different keys,
\* with an older, a newer or no timestamp.
SortArgs ==
    { [title |-> <<"X">>, url |-> u, source |-> "Google News", published |-> p] :
        u \in { <<"a">>, <<"b">>, <<"c">> }, p \in {NoTimestamp, 1, 2} }

SortIdle ==
    /\ sort_in = <<>>
    /\ sort_out = <<>>
    /\ sort_pc = "idle"

SortInit ==
    /\ sort_in \in {s \in BoundedSeq(SortArgs, MaxSortLen) : dedupe_items(s) = s}
    /\ sort_out = <<>>
    /\ sort_pc = "in"

\* update_research_feed.py lines 174-177, update_weekly_content.py line 412
CallSort ==
    /\ sort_pc = "in"
    /\ sort_out' = SortDescending(sort_in)
    /\ sort_pc' = "out"
    /\ UNCHANGED sort_in

\* ------------------------- research-feed runs in series, same payloads
\* What the sources return to every run: up to MaxFetched items with numbered
\* urls, their timestamps absent, all equal, rising, falling or mixed, and
\* possibly one more item whose url differs from the first one's in letter
\* case only, served before or after the others.
DigitChar == <<"0", "1", "2", "3", "4", "5", "6", "7", "8", "9">>

NumberedUrl(first, k) == <<first, DigitChar[(k \div 10) + 1], DigitChar[(k % 10) + 1]>>

StampPatterns == {"none", "same", "rising", "falling", "mixed"}

Stamp(pattern, k) ==
    CASE pattern = "none" -> NoTimestamp
      [] pattern = "same" -> 1
      [] pattern = "rising" -> k
      [] pattern = "falling" -> MaxFetched + 2 - k
      [] pattern = "mixed" -> (k * 7) % 5

FetchedItem(pattern, first, k) ==
    [title |-> <<"X">>, url |-> NumberedUrl(first, k), source |-> "Google News",
     published |-> Stamp(pattern, k)]

FetchedCounts == {1} \cup ((SNAPSHOT_LIMIT - 1)..MaxFetched)

SerialPayloads ==
    { (IF variant = "before" THEN <<FetchedItem(p, "A", 1)>> ELSE <<>>)
      \o [k \in 1..n |-> FetchedItem(p, "a", k)]
      \o (IF variant = "after" THEN <<FetchedItem(p, "A", 1)>> ELSE <<>>) :
        n \in FetchedCounts, p \in StampPatterns, variant \in {"none", "before", "after"} }

\* research-feed.json before the first run: absent, not JSON, or a snapshot
\* that holds the first and the last but one of the numbered items.
SerialFiles ==
    { AbsentFile, InvalidJsonFile,
      ObjectFile("list",
                 << ItemElem([title |-> <<"X">>, url |-> NumberedUrl("a", 1),
                              source |-> "Google News", published |-> 1, isNew |-> FALSE]),
                    ItemElem([title |-> <<"X">>, url |-> NumberedUrl("a", MaxFetched - 1),
                              source |-> "Google News", published |-> 1, isNew |-> TRUE]) >>,
                 NoTimestamp) }

SerialIdle ==
    /\ serial_payload = <<>>
    /\ serial_file = AbsentFile
    /\ serial_runs = <<>>

SerialInit ==
    /\ serial_payload \in SerialPayloads
    /\ serial_file \in SerialFiles
    /\ serial_runs = <<>>

\* main, lines 151-190, on the file as the run before left it
RunOf(file, payload, now, written) ==
    LET ex == load_existing_feed(file)
        urls == ExistingUrls(ex)
        marked == MergedItems(payload, urls)
    IN  [existing_urls |-> urls, deduped |-> marked, new_count |-> NewCount(marked),
         output |-> OutputDocument(marked, now, ex), written |-> written]

\* main, lines 151-194: a run that writes its snapshot
SerialRun ==
    /\ Len(serial_runs) < MaxSerialRuns
    /\ ~ExistingUrlsRaises(load_existing_feed(serial_file))
    /\ LET run == RunOf(serial_file, serial_payload, Len(serial_runs) + 1, TRUE)
       IN  /\ serial_file' = run.output
           /\ serial_runs' = Append(serial_runs, run)
    /\ UNCHANGED serial_payload

\* main, lines 151-194: open() or the write raises; open(.., "w") may already
\* have emptied the file.
SerialRunWriteFails ==
    /\ Len(serial_runs) < MaxSerialRuns
    /\ ~ExistingUrlsRaises(load_existing_feed(serial_file))
    /\ serial_file' \in {serial_file, InvalidJsonFile}
    /\ serial_runs' = Append(serial_runs,
                             RunOf(serial_file, serial_payload, Len(serial_runs) + 1, FALSE))
    /\ UNCHANGED serial_payload

FnIdle == ParseIdle /\ RerunIdle /\ SortIdle /\ SerialIdle

\* ------------------------------------------------------------ specifications
Init == FeedInit /\ DedupeIdle /\ OuraIdle /\ ContentIdle /\ FnIdle

Next ==
    \/ StartRun /\ UNCHANGED <<fnVars, ddVars, ouraVars, contentVars>>
    \/ LoadExisting /\ UNCHANGED <<fnVars, ddVars, ouraVars, contentVars>>
    \/ FeedFails /\ UNCHANGED <<fnVars, ddVars, ouraVars, contentVars>>
    \/ FetchAndParse /\ UNCHANGED <<fnVars, ddVars, ouraVars, contentVars>>
    \/ DedupeSortMark /\ UNCHANGED <<fnVars, ddVars, ouraVars, contentVars>>
    \/ WriteSnapshot /\ UNCHANGED <<fnVars, ddVars, ouraVars, contentVars>>
    \/ WriteFails /\ UNCHANGED <<fnVars, ddVars, ouraVars, contentVars>>

Spec == Init /\ [][Next]_vars

InitDedupe == DedupeInit /\ research_feed_json = AbsentFile /\ FeedInit /\ OuraIdle /\ ContentIdle /\ FnIdle

NextDedupe == CallDedupe /\ UNCHANGED <<fnVars, feedVars, ouraVars, contentVars>>

SpecDedupe == InitDedupe /\ [][NextDedupe]_vars

InitOura == OuraInit /\ research_feed_json = AbsentFile /\ FeedInit /\ DedupeIdle /\ ContentIdle /\ FnIdle

NextOura ==
    \/ NoToken /\ UNCHANGED <<fnVars, feedVars, ddVars, contentVars>>
    \/ HaveToken /\ UNCHANGED <<fnVars, feedVars, ddVars, contentVars>>
    \/ EndpointFails /\ UNCHANGED <<fnVars, feedVars, ddVars, contentVars>>
    \/ EndpointReturns /\ UNCHANGED <<fnVars, feedVars, ddVars, contentVars>>
    \/ EndpointMalformed /\ UNCHANGED <<fnVars, feedVars, ddVars, contentVars>>
    \/ MergeAndReport /\ UNCHANGED <<fnVars, feedVars, ddVars, contentVars>>
    \/ WriteReport /\ UNCHANGED <<fnVars, feedVars, ddVars, contentVars>>
    \/ WriteReportFails /\ UNCHANGED <<fnVars, feedVars, ddVars, contentVars>>

SpecOura == InitOura /\ [][NextOura]_vars

InitContent == ContentInit /\ research_feed_json = AbsentFile /\ FeedInit /\ DedupeIdle /\ OuraIdle /\ FnIdle

NextContent ==
    \/ WeeklyFeedFails /\ UNCHANGED <<fnVars, feedVars, ddVars, ouraVars, job, nutritionVars, goodreadsVars>>
    \/ WeeklyFetchAndParse /\ UNCHANGED <<fnVars, feedVars, ddVars, ouraVars, job, nutritionVars, goodreadsVars>>
    \/ RecipeFeedsDone /\ UNCHANGED <<fnVars, feedVars, ddVars, ouraVars, job, nutritionVars, goodreadsVars>>
    \/ LongevityFeedFails /\ UNCHANGED <<fnVars, feedVars, ddVars, ouraVars, job, nutritionVars, goodreadsVars>>
    \/ LongevityFetchAndParse /\ UNCHANGED <<fnVars, feedVars, ddVars, ouraVars, job, nutritionVars, goodreadsVars>>
    \/ LongevityFeedsDone /\ UNCHANGED <<fnVars, feedVars, ddVars, ouraVars, job, nutritionVars, goodreadsVars>>
    \/ GenerateWorkouts /\ UNCHANGED <<fnVars, feedVars, ddVars, ouraVars, job, nutritionVars, goodreadsVars>>
    \/ GenerateMealPlan /\ UNCHANGED <<fnVars, feedVars, ddVars, ouraVars, job, nutritionVars, goodreadsVars>>
    \/ WriteRecipes /\ UNCHANGED <<fnVars, feedVars, ddVars, ouraVars, job, nutritionVars, goodreadsVars>>
    \/ WriteWorkouts /\ UNCHANGED <<fnVars, feedVars, ddVars, ouraVars, job, nutritionVars, goodreadsVars>>
    \/ WeeklyWriteFails /\ UNCHANGED <<fnVars, feedVars, ddVars, ouraVars, job, nutritionVars, goodreadsVars>>
    \/ NoGistId /\ UNCHANGED <<fnVars, feedVars, ddVars, ouraVars, job, weeklyVars, goodreadsVars>>
    \/ WriteErrorReport /\ UNCHANGED <<fnVars, feedVars, ddVars, ouraVars, job, weeklyVars, goodreadsVars>>
    \/ GistFetchFails /\ UNCHANGED <<fnVars, feedVars, ddVars, ouraVars, job, weeklyVars, goodreadsVars>>
    \/ GistFetched /\ UNCHANGED <<fnVars, feedVars, ddVars, ouraVars, job, weeklyVars, goodreadsVars>>
    \/ Analyze /\ UNCHANGED <<fnVars, feedVars, ddVars, ouraVars, job, weeklyVars, goodreadsVars>>
    \/ WriteNutritionReport /\ UNCHANGED <<fnVars, feedVars, ddVars, ouraVars, job, weeklyVars, goodreadsVars>>
    \/ NutritionWriteFails /\ UNCHANGED <<fnVars, feedVars, ddVars, ouraVars, job, weeklyVars, goodreadsVars>>
    \/ MissingCredentials /\ UNCHANGED <<fnVars, feedVars, ddVars, ouraVars, job, weeklyVars, nutritionVars>>
    \/ GoodreadsFetchFails /\ UNCHANGED <<fnVars, feedVars, ddVars, ouraVars, job, weeklyVars, nutritionVars>>
    \/ GoodreadsParseFails /\ UNCHANGED <<fnVars, feedVars, ddVars, ouraVars, job, weeklyVars, nutritionVars>>
    \/ GoodreadsParsed /\ UNCHANGED <<fnVars, feedVars, ddVars, ouraVars, job, weeklyVars, nutritionVars>>
    \/ WriteBooks /\ UNCHANGED <<fnVars, feedVars, ddVars, ouraVars, job, weeklyVars, nutritionVars>>
    \/ GoodreadsWriteFails /\ UNCHANGED <<fnVars, feedVars, ddVars, ouraVars, job, weeklyVars, nutritionVars>>

SpecContent == InitContent /\ [][NextContent]_vars

OthersIdle == research_feed_json = AbsentFile /\ FeedInit /\ DedupeIdle /\ OuraIdle /\ ContentIdle

InitParse == ParseInit /\ RerunIdle /\ SortIdle /\ SerialIdle /\ OthersIdle

NextParse ==
    CallParser /\ UNCHANGED <<feedVars, ddVars, ouraVars, contentVars, rerunVars, sortVars,
                              serialVars>>

SpecParse == InitParse /\ [][NextParse]_vars

InitRerun == RerunInit /\ ParseIdle /\ SortIdle /\ SerialIdle /\ OthersIdle

NextRerun ==
    \/ RunResearchFeed /\ UNCHANGED <<feedVars, ddVars, ouraVars, contentVars, parseVars, sortVars, serialVars>>
    \/ RunWeeklyFeeds /\ UNCHANGED <<feedVars, ddVars, ouraVars, contentVars, parseVars, sortVars, serialVars>>
    \/ RunHealthSync /\ UNCHANGED <<feedVars, ddVars, ouraVars, contentVars, parseVars, sortVars, serialVars>>

SpecRerun == InitRerun /\ [][NextRerun]_vars

InitSort == SortInit /\ ParseIdle /\ RerunIdle /\ SerialIdle /\ OthersIdle

NextSort ==
    CallSort /\ UNCHANGED <<feedVars, ddVars, ouraVars, contentVars, parseVars, rerunVars,
                            serialVars>>

SpecSort == InitSort /\ [][NextSort]_vars

InitSerial == SerialInit /\ ParseIdle /\ RerunIdle /\ SortIdle /\ OthersIdle

NextSerial ==
    \/ SerialRun /\ UNCHANGED <<feedVars, ddVars, ouraVars, contentVars, parseVars,
                                rerunVars, sortVars>>
    \/ SerialRunWriteFails /\ UNCHANGED <<feedVars, ddVars, ouraVars, contentVars, parseVars,
                                          rerunVars, sortVars>>

SpecSerial == InitSerial /\ [][NextSerial]_vars

\* ================================================================ properties
\* The identity key as the specification states it: the lowercased url, or
\* the lowercased title when the url is empty.
NormalizedKey(item) == Lower(IF item.url # <<>> THEN item.url ELSE item.title)

\* The key set of the previous snapshot: the lowercased urls of its items.
PreviousKeys(doc) ==
    {Lower(doc.elems[i].item.url) : i \in {j \in DOMAIN doc.elems : doc.elems[j].shape = "item"}}

Marked == pc \in {"write", "done", "write_failed"}

\* C1: once a research-feed run has marked its items, every fresh deduplicated
\* item has isNew = FALSE when its lowercased url is a key of the previous
\* snapshot and isNew = TRUE when it is not.
C1_DiffByNormalizedKey ==
    Marked => \A i \in DOMAIN deduped :
                 deduped[i].isNew = (Lower(deduped[i].url) \notin PreviousKeys(existing))

\* C1 witness: the previous snapshot holds url a/1, the run fetched A/1 and a/2;
\* A/1 is not new and a/2 is new.
C1_Witness ==
    /\ pc = "done"
    /\ \E i \in DOMAIN existing.elems :
          existing.elems[i].shape = "item" /\ existing.elems[i].item.url = <<"a", "1">>
    /\ \E i, j \in DOMAIN deduped :
          /\ deduped[i].url = <<"A", "1">> /\ ~deduped[i].isNew
          /\ deduped[j].url = <<"a", "2">> /\ deduped[j].isNew

\* C2 as stated: no key is flagged isNew in the snapshot a run has just
\* written when a snapshot written by an earlier run already flagged it.
C2_NeverNewTwice ==
    pc = "done" => NewKeysOf(output) \cap newSeen = {}

\* C2 as amended: a key flagged isNew in the snapshot a run read as its
\* previous snapshot is not flagged isNew in the snapshot that run writes.
C2_NotNewInConsecutiveSnapshots ==
    pc = "done" =>
        \A i \in DOMAIN output.elems, j \in DOMAIN existing.elems :
            (/\ existing.elems[j].shape = "item"
             /\ existing.elems[j].item.isNew
             /\ Lower(existing.elems[j].item.url) = Lower(output.elems[i].item.url))
            => ~output.elems[i].item.isNew

\* C2 witness: a second or later run wrote an item as not new that the snapshot
\* it read had flagged as new.
C2_Witness ==
    /\ pc = "done"
    /\ clock >= 2
    /\ \E i \in DOMAIN output.elems, j \in DOMAIN existing.elems :
          /\ existing.elems[j].shape = "item"
          /\ existing.elems[j].item.isNew
          /\ Lower(existing.elems[j].item.url) = Lower(output.elems[i].item.url)
          /\ ~output.elems[i].item.isNew

\* The positions of dd_in that hold the first occurrence of their key.
FirstOccurrences ==
    {i \in DOMAIN dd_in : \A j \in 1..(i - 1) : NormalizedKey(dd_in[j]) # NormalizedKey(dd_in[i])}

\* C3: dedupe_items returns a subsequence of its argument with the same set of
\* normalized keys, no key twice, and every key represented by its first
\* occurrence: the n-th result is the argument at the n-th first occurrence.
C3_DedupeFirstSeen ==
    dd_pc = "out" =>
        /\ {NormalizedKey(dd_out[n]) : n \in DOMAIN dd_out}
              = {NormalizedKey(dd_in[i]) : i \in DOMAIN dd_in}
        /\ \A m, n \in DOMAIN dd_out :
              NormalizedKey(dd_out[m]) = NormalizedKey(dd_out[n]) => m = n
        /\ Len(dd_out) = Cardinality(FirstOccurrences)
        /\ \A n \in DOMAIN dd_out :
              \E i \in FirstOccurrences :
                  /\ Cardinality({j \in FirstOccurrences : j <= i}) = n
                  /\ dd_out[n] = dd_in[i]

\* C3 witness: an argument of three items in which a url differing only in case
\* and a title standing in for an empty url repeat earlier keys.
C3_Witness ==
    /\ dd_pc = "out"
    /\ Len(dd_in) = 3
    /\ Len(dd_out) = 1
    /\ dd_in[1].url = <<"x">>
    /\ dd_in[2].url = <<>> /\ dd_in[2].title = <<"X">>
    /\ dd_in[3] # dd_in[1]

\* The previous snapshot is one the claim C7 lists as unreadable.
CorruptSnapshot(file) ==
    \/ file.kind \in {"absent", "invalid_json", "non_object"}
    \/ file.itemsKind = "null"
    \/ \E i \in DOMAIN file.elems : file.elems[i].shape \in {"scalar", "url_null"}

\* C7 as stated: whatever the previous snapshot file holds, the run does not
\* fail while reading it, and with an unreadable snapshot every fresh item is
\* marked new.
C7_CorruptSnapshotIsEmptyHistory ==
    /\ pc # "load_failed"
    /\ (Marked /\ existing = DefaultFeed) => \A i \in DOMAIN deduped : deduped[i].isNew

\* The endpoints whose batches the date-keyed merge folds, in their order.
MergedEndpoints ==
    {"daily_sleep", "sleep", "daily_readiness", "daily_activity", "heartrate", "daily_spo2"}

Merged == oura_pc \in {"write", "done", "write_failed"} /\ report.kind = "days"

\* C4: after the merge, for every endpoint batch and every dated record in it,
\* the day record of that date holds all the fields that endpoint writes, with
\* the values of a record of that batch for that date; so two batches with a
\* record for the same date are both present in the merged day record.
C4_MergeKeepsEveryBatch ==
    Merged =>
        \A e \in MergedEndpoints :
            \A i \in DOMAIN fetched[e] :
                LET date == fetched[e][i].date
                IN  date # NoDate =>
                      /\ date \in DOMAIN daily_data
                      /\ daily_data[date]["date"] = date
                      /\ \E j \in DOMAIN fetched[e] :
                            /\ fetched[e][j].date = date
                            /\ \A f \in DOMAIN Updates(fetched[e], e)[j].fields :
                                  /\ f \in DOMAIN daily_data[date]
                                  /\ daily_data[date][f] = Updates(fetched[e], e)[j].fields[f]

\* C4 witness: a sleep-score batch and an activity batch both hold 2024-05-01
\* and the merged record has sleep_score 80 and steps 9000.
C4_Witness ==
    /\ Merged
    /\ \E i \in DOMAIN fetched["daily_sleep"] : fetched["daily_sleep"][i].date = 20240501
    /\ \E i \in DOMAIN fetched["daily_activity"] : fetched["daily_activity"][i].date = 20240501
    /\ 20240501 \in DOMAIN daily_data
    /\ {"sleep_score", "steps"} \subseteq DOMAIN daily_data[20240501]
    /\ daily_data[20240501]["sleep_score"] = 80
    /\ daily_data[20240501]["steps"] = 9000

\* The total sleep duration of a candidate, a missing one counting as 0.
DurationOrZero(c) == IF c.total_sleep_duration = None THEN 0 ELSE c.total_sleep_duration

SleepCandidates(date) ==
    {i \in DOMAIN fetched["sleep"] : fetched["sleep"][i].date = date}

\* C5: for every date with sleep-period candidates, all sleep-detail fields of
\* the merged day record are those of one candidate whose total sleep duration
\* is at least that of every other candidate of the date.
C5_LongestSleepPeriodWins ==
    Merged =>
        \A date \in Dates :
            SleepCandidates(date) # {} =>
                \E c \in SleepCandidates(date) :
                    /\ \A o \in SleepCandidates(date) :
                          DurationOrZero(fetched["sleep"][c]) >= DurationOrZero(fetched["sleep"][o])
                    /\ \A f \in DOMAIN SleepDetailFields(fetched["sleep"][c]) :
                          /\ f \in DOMAIN daily_data[date]
                          /\ daily_data[date][f] = SleepDetailFields(fetched["sleep"][c])[f]

\* C5 witness: candidates of 7200 and then 3600 seconds for 2024-05-01 that
\* differ in efficiency; the merged record keeps the fields of the 7200 one.
C5_Witness ==
    /\ Merged
    /\ Len(fetched["sleep"]) >= 2
    /\ fetched["sleep"][1].date = 20240501
    /\ fetched["sleep"][1].total_sleep_duration = 7200
    /\ fetched["sleep"][2].date = 20240501
    /\ fetched["sleep"][2].total_sleep_duration = 3600
    /\ fetched["sleep"][2].efficiency # fetched["sleep"][1].efficiency
    /\ daily_data[20240501]["total_sleep_seconds"] = 7200
    /\ daily_data[20240501]["sleep_efficiency"] = fetched["sleep"][1].efficiency

\* C6 as stated, for health-sync: whatever one endpoint serves, the run is not
\* ended before the snapshot write.
C6_SourceFailureNeverAborts ==
    oura_pc # "crashed"

\* C8: in every job the only event that ends a run with a failure is a
\* failure of the final snapshot write: no run ends in exit status 1 or in an
\* uncaught exception anywhere else.
C8_OnlyFinalWriteFailsRun ==
    /\ g_pc \notin {"exit_1_no_credentials", "exit_1_fetch", "exit_1_parse"}
    /\ n_pc \notin {"crashed", "crashed_after_write"}

\* C9: a run in which every source fails still succeeds and has written a
\* snapshot that carries an explanatory marker: the nutrition run whose gist
\* fetch failed and the goodreads run whose shelf fetch or parse failed have
\* ended with such a document in their file.
AllSourcesFailedRunEnded ==
    \/ n_pc = "returned_without_report"
    \/ g_pc \in {"exit_1_fetch", "exit_1_parse"}

C9_AllSourcesFailedWritesMarkedSnapshot ==
    AllSourcesFailedRunEnded =>
        \/ job = "nutrition" /\ nutrition_report_json.kind = "error"
        \/ job = "goodreads" /\ g_pc = "done" /\ goodreads_feed_json.kind = "error"

\* C10: whenever a completion fails or its payload is off the schema, the
\* written document holds a static fallback in its place, for the workout
\* plan, the meal plan and the nutrition analysis alike, and an off-schema
\* payload is never written through.
FallbackDue(reply) ==
    \/ reply.kind # "object"
    \/ reply.valueKind \in {"missing", "null"}
    \/ reply.value = OffSchemaList

IsStaticPayload(v) == Truthy(v) /\ v.list # OffSchemaList

AnalysisFallbackDue ==
    \/ analysis_reply.kind # "json"
    \/ analysis_reply.shape \in {"off_schema_object", "unsized_fields", "non_object"}

C10_FallbackOnFailedOrOffSchemaCompletion ==
    /\ (weekly_workouts_json.kind = "workouts" /\ FallbackDue(workout_reply))
          => weekly_workouts_json.workouts = PyList(WORKOUT_TEMPLATE)
    /\ (weekly_recipes_json.kind = "recipes" /\ FallbackDue(meal_reply))
          => IsStaticPayload(weekly_recipes_json.meals)
    /\ (nutrition_report_json.kind = "report" /\ AnalysisFallbackDue)
          => /\ nutrition_report_json.analysis.py = "json"
             /\ nutrition_report_json.analysis.shape = "analysis"

\* ---- parsers ---------------------------------------------------------------
IsControlChar(ch) == Ord(ch) < 32 /\ ch \notin {"\t", "\n", "\r"}

HasControlChar(text) == \E k \in DOMAIN text : IsControlChar(text[k])

NotControlChar(ch) == ~IsControlChar(ch)

PayloadHasControlChar ==
    \E i \in DOMAIN xml_data.records :
        \/ HasControlChar(xml_data.records[i].title)
        \/ /\ xml_data.records[i].link.kind = "text"
           /\ HasControlChar(xml_data.records[i].link.text)

\* the records of the payload with the control characters taken out
RecordsWithoutControlChars ==
    [i \in DOMAIN xml_data.records |->
        [xml_data.records[i] EXCEPT
            !.title = SelectSeq(@, NotControlChar),
            !.link = IF @.kind = "text" THEN LinkText(SelectSeq(@.text, NotControlChar))
                     ELSE @]]

\* C11: for RSS and Atom, in the research-feed and the weekly-content job, a
\* payload that is well-formed apart from control characters (below 32 and not
\* tab, newline or carriage return) is parsed as if they were not there: the
\* call returns the items of the payload without them and does not raise.
C11_ControlCharsStrippedBeforeParse ==
    (parse_pc = "out" /\ xml_data.markup = "sound" /\ ~HrefRaises(xml_data))
        => parsed = Returned(ParseRecords(RecordsWithoutControlChars, "feed"))

\* the record has a title and a link that are not blank
RECURSIVE NonBlankRecords(_)
NonBlankRecords(records) ==
    IF records = <<>> THEN <<>>
    ELSE LET r == Head(records)
             blank == \/ Strip(r.title) = <<>>
                      \/ r.link.kind = "no_href"
                      \/ (r.link.kind = "text" /\ Strip(r.link.text) = <<>>)
         IN  IF blank THEN NonBlankRecords(Tail(records))
             ELSE << [title |-> Strip(r.title), url |-> Strip(r.link.text)] >>
                  \o NonBlankRecords(Tail(records))

\* C12: every item a parser returns has a non-empty trimmed title and url, and
\* a record whose title or link is missing, empty or blank is left out without
\* an error and without touching the other records: on a sound payload the
\* call returns exactly the records with a title and a link, in their order.
C12_BlankRecordsExcludedSilently ==
    (parse_pc = "out" /\ xml_data.markup = "sound" /\ ~PayloadHasControlChar)
        => /\ parsed.kind = "items"
           /\ [i \in DOMAIN parsed.items |->
                  [title |-> parsed.items[i].title, url |-> parsed.items[i].url]]
                 = NonBlankRecords(xml_data.records)
           /\ \A i \in DOMAIN parsed.items :
                 /\ parsed.items[i].title # <<>> /\ Strip(parsed.items[i].title) = parsed.items[i].title
                 /\ parsed.items[i].url # <<>> /\ Strip(parsed.items[i].url) = parsed.items[i].url

\* ---- idempotence -----------------------------------------------------------
\* a merged entity without the flag that depends on the run history
WithoutIsNew(entities) ==
    [i \in DOMAIN entities |->
        IF "isNew" \in DOMAIN entities[i]
        THEN [k \in DOMAIN entities[i] \ {"isNew"} |-> entities[i][k]]
        ELSE entities[i]]

SameUrlButForCase(a, b) == a.url # b.url /\ Lower(a.url) = Lower(b.url)

\* C14: for every item a parser returns, the key dedupe_items uses and the key
\* the cross-run diff uses are the same string; two items whose urls differ
\* only in letter case are one item to dedupe_items and get the same isNew
\* flag whatever the previous snapshot holds.
C14_DedupKeyIsDiffKey ==
    (parse_pc = "out" /\ parsed.kind = "items") =>
        /\ \A i \in DOMAIN parsed.items : DedupeKey(parsed.items[i]) = DiffKey(parsed.items[i])
        /\ \A i, j \in DOMAIN parsed.items :
              SameUrlButForCase(parsed.items[i], parsed.items[j]) =>
                 /\ Len(dedupe_items(<<parsed.items[i], parsed.items[j]>>)) = 1
                 /\ \A urls \in SUBSET {DiffKey(parsed.items[i]), parsed.items[i].url,
                                        parsed.items[j].url} :
                       IsNew(parsed.items[i], urls) = IsNew(parsed.items[j], urls)

\* C14 witness: a parser returned two items whose urls differ only in case.
C14_Witness ==
    /\ parse_pc = "out"
    /\ parsed.kind = "items"
    /\ \E i, j \in DOMAIN parsed.items : SameUrlButForCase(parsed.items[i], parsed.items[j])

\* ---- the order of the merge ---------------------------------------------------
\* the updates one endpoint's batch makes to the day records
EndpointUpdates(e) ==
    Updates(IF e = "sleep" THEN MainSleepPeriods(fetched[e]) ELSE fetched[e], e)

\* the endpoints whose batch has a dated record
DatedEndpoints == {e \in MergedEndpoints : \E i \in DOMAIN fetched[e] : fetched[e][i].date # NoDate}

\* every order in which these endpoints can be folded
FoldOrders ==
    {o \in [1..Cardinality(DatedEndpoints) -> DatedEndpoints] :
        \A i, j \in DOMAIN o : i # j => o[i] # o[j]}

RECURSIVE FoldInOrder(_, _)
FoldInOrder(dd, order) ==
    IF order = <<>> THEN dd
    ELSE FoldInOrder(FoldUpdates(dd, EndpointUpdates(Head(order))), Tail(order))

SharedDate ==
    \E e1, e2 \in DatedEndpoints :
        /\ e1 # e2
        /\ \E i \in DOMAIN fetched[e1], j \in DOMAIN fetched[e2] :
              fetched[e1][i].date # NoDate /\ fetched[e1][i].date = fetched[e2][j].date

\* C15 as stated: when two endpoints have a record for the same date, folding
\* the batches in some other source order gives other day records.
C15_SourceOrderChangesOutput ==
    (Merged /\ SharedDate) => \E o \in FoldOrders : FoldInOrder(EmptyDict, o) # daily_data

\* C15 amended: the endpoints write disjoint fields, so folding the batches in
\* any source order gives the same day records.
C15_SourceOrderDoesNotMatter ==
    Merged => \A o \in FoldOrders : FoldInOrder(EmptyDict, o) = daily_data

\* C15 witness: the merge has folded sleep periods and heart rates that share
\* 2024-05-01.
C15_Witness ==
    /\ Merged
    /\ SharedDate
    /\ {"sleep", "heartrate"} \subseteq DatedEndpoints
    /\ \E i \in DOMAIN fetched["sleep"], j \in DOMAIN fetched["heartrate"] :
          fetched["sleep"][i].date = 20240501 /\ fetched["heartrate"][j].date = 20240501

\* ---- who writes which field -------------------------------------------------
\* the names of the fields a batch writes for a date
FieldsWritten(e, date) ==
    UNION { DOMAIN Updates(fetched[e], e)[i].fields :
              i \in {k \in DOMAIN fetched[e] : fetched[e][k].date = date} }

\* C20: no field other than date is written by the batches of two endpoints:
\* the field names of sleep score, sleep period, readiness, activity, heart
\* rate and SpO2 are pairwise disjoint and none is "date", so every field of a
\* merged day record other than date comes from exactly one endpoint.
C20_FieldGroupsDisjoint ==
    Merged =>
        LET days == DOMAIN daily_data
            written == {<<e, d, FieldsWritten(e, d)>> : e \in MergedEndpoints, d \in days}
        IN  /\ \A p, q \in written : p[1] # q[1] => p[3] \cap q[3] = {}
            /\ \A p \in written : "date" \notin p[3]
            /\ \A d \in days : \A f \in DOMAIN daily_data[d] \ {"date"} :
                  Cardinality({p \in written : p[2] = d /\ f \in p[3]}) = 1

\* C20 witness: sleep scores and readiness were merged into the record of
\* 2024-05-02, which holds sleep_score and readiness_score.
C20_Witness ==
    /\ Merged
    /\ 20240502 \in DOMAIN daily_data
    /\ {"sleep_score", "readiness_score"} \subseteq DOMAIN daily_data[20240502]
    /\ FieldsWritten("daily_sleep", 20240502) # {}
    /\ FieldsWritten("daily_readiness", 20240502) # {}

\* ---- the days sequence --------------------------------------------------------
\* the non-empty dates the merged batches mention
DatesOfBatches ==
    UNION { {fetched[e][i].date : i \in DOMAIN fetched[e]} : e \in MergedEndpoints } \ {NoDate}

\* C16: the days written by health-sync are in strictly descending date order,
\* hold every date a merged batch mentions with a non-empty date exactly once
\* and no other, and each record's date field is the key it was merged under.
C16_DaysStrictlyDescending ==
    Merged =>
        /\ \A i, j \in DOMAIN report.days : i < j => report.days[i]["date"] > report.days[j]["date"]
        /\ {report.days[i]["date"] : i \in DOMAIN report.days} = DatesOfBatches
        /\ Len(report.days) = Cardinality(DatesOfBatches)
        /\ DOMAIN daily_data = DatesOfBatches
        /\ \A i \in DOMAIN report.days :
              report.days[i] = daily_data[report.days[i]["date"]]
        /\ \A d \in DOMAIN daily_data : daily_data[d]["date"] = d

\* C16 witness: two endpoints brought one date each, a third a record without
\* date, and the report lists 2024-05-02 before 2024-05-01.
C16_Witness ==
    /\ Merged
    /\ Len(report.days) = 2
    /\ report.days[1]["date"] = 20240502
    /\ report.days[2]["date"] = 20240501
    /\ \E e \in MergedEndpoints : \E i \in DOMAIN fetched[e] : fetched[e][i].date = NoDate

\* ---- the order of the items ---------------------------------------------------
PositionIn(items, x) == CHOOSE i \in DOMAIN items : items[i] = x

\* C17: the sorted items are the deduplicated items, newest first; an item
\* without a timestamp comes after every item with one; items with the same
\* timestamp, or both without, stay in their order of the deduplicated list.
C17_NewestFirstStable ==
    sort_pc = "out" =>
        /\ Len(sort_out) = Len(sort_in)
        /\ Range(sort_out) = Range(sort_in)
        /\ \A i, j \in DOMAIN sort_out :
              i < j =>
                 LET a == sort_out[i]
                     b == sort_out[j]
                 IN  /\ a.published = NoTimestamp => b.published = NoTimestamp
                     /\ (a.published # NoTimestamp /\ b.published # NoTimestamp)
                           => a.published >= b.published
                     /\ a.published = b.published
                           => PositionIn(sort_in, a) < PositionIn(sort_in, b)

\* C17 witness: an undated item followed by two items of the same date; after
\* the sort the two dated ones lead in their old order and the undated one is
\* last.
C17_Witness ==
    /\ sort_pc = "out"
    /\ Len(sort_in) = 3
    /\ sort_in[1].published = NoTimestamp
    /\ sort_in[2].published = 1
    /\ sort_in[3].published = 1
    /\ sort_out = <<sort_in[2], sort_in[3], sort_in[1]>>

\* ---- the write ----------------------------------------------------------------
\* C18: the snapshot is replaced atomically: whatever step the run takes, also
\* a write that fails midway, the file afterwards holds the complete document
\* it held before or the complete new document.
C18_SnapshotReplacedAtomically ==
    [][research_feed_json' = research_feed_json \/ research_feed_json' = output]_vars

\* the item as the parsers returned it
Unflagged(item) ==
    [title |-> item.title, url |-> item.url, source |-> item.source,
     published |-> item.published]

PreviousItemKeys ==
    IF existing.itemsKind = "list"
    THEN {Lower(existing.elems[i].item.url) :
             i \in {k \in DOMAIN existing.elems : existing.elems[k].shape = "item"}}
    ELSE {}

\* C19: the snapshot a research-feed run builds and writes holds only items
\* fetched in that run: every item of it is an item a source returned in this
\* run, so an item of the previous snapshot that no source returned is absent,
\* and each flag is computed in this run from the item's own key.
C19_SnapshotHoldsOnlyFetchedItems ==
    pc \in {"write", "done", "write_failed"} =>
        \A i \in DOMAIN output.elems :
            /\ output.elems[i].shape = "item"
            /\ \E k \in DOMAIN all_items : all_items[k] = Unflagged(output.elems[i].item)
            /\ output.elems[i].item.isNew
                  = (Lower(output.elems[i].item.url) \notin PreviousItemKeys)

\* C19 witness: the previous snapshot held an item the sources did not return
\* in this run; the run fetched another item and wrote a snapshot without it.
C19_Witness ==
    /\ pc = "done"
    /\ research_feed_json = output
    /\ output.elems # <<>>
    /\ \E key \in PreviousItemKeys :
          /\ \A k \in DOMAIN all_items : Lower(all_items[k].url) # key
          /\ \A i \in DOMAIN output.elems : Lower(output.elems[i].item.url) # key

\* ---- serialized runs on the same payloads ------------------------------------
\* the items of a written document, in order
SnapshotItems(doc) == [i \in DOMAIN doc.elems |-> doc.elems[i].item]

\* C21: when a research-feed run has written its snapshot and the next run,
\* started after that write, sees the same source payloads and writes its own
\* snapshot, no item of the second run's snapshot has isNew = TRUE.
C21_SecondRunFlagsNothingNew ==
    \A r \in 2..Len(serial_runs) :
        (serial_runs[r - 1].written /\ serial_runs[r].written) =>
            \A i \in DOMAIN serial_runs[r].output.elems :
                ~serial_runs[r].output.elems[i].item.isNew

\* C21 witness: the first run wrote a snapshot with items flagged new, one of
\* them with an upper-case url; the second run wrote its snapshot, and flagged
\* as new an item that is beyond the first 50.
C21_Witness ==
    /\ Len(serial_runs) = 2
    /\ serial_runs[1].written /\ serial_runs[2].written
    /\ serial_file = serial_runs[2].output
    /\ \E i \in DOMAIN serial_runs[1].output.elems :
          /\ serial_runs[1].output.elems[i].item.isNew
          /\ serial_runs[1].output.elems[i].item.url[1] = "A"
    /\ serial_runs[2].output.elems # <<>>
    /\ \E k \in DOMAIN serial_runs[2].deduped : k > 50 /\ serial_runs[2].deduped[k].isNew

\* a has a timestamp and b has none or an older one
Newer(a, b) ==
    a.published # NoTimestamp /\ (b.published = NoTimestamp \/ a.published > b.published)

NewAmong(items, positions) == Cardinality({k \in positions : items[k].isNew})

\* C22: the snapshot a research-feed run writes holds at most 50 items, the
\* first 50 of the deduplicated, sorted sequence in their order; no item left
\* out is newer than an item included; an item left out is not in the
\* snapshot, although it is flagged as the diff decides and counted in
\* new_count when flagged new.
C22_SnapshotIsFirstFifty ==
    \A r \in DOMAIN serial_runs :
        LET run == serial_runs[r]
            items == SnapshotItems(run.output)
            included == {k \in DOMAIN run.deduped : k <= 50}
            left == {k \in DOMAIN run.deduped : k > 50}
        IN  run.written =>
                /\ Len(items) <= 50
                /\ DOMAIN items = included
                /\ \A i \in included : items[i] = run.deduped[i]
                /\ r = Len(serial_runs) => SnapshotItems(serial_file) = items
                /\ \A k \in left : \A i \in included : ~Newer(run.deduped[k], items[i])
                /\ \A k \in left : \A i \in included : items[i].url # run.deduped[k].url
                /\ \A k \in left :
                      run.deduped[k].isNew = (Lower(run.deduped[k].url) \notin run.existing_urls)
                /\ run.new_count = NewAmong(run.deduped, included) + NewAmong(run.deduped, left)

\* C22 witness: a run fetched more than 50 items with different keys and wrote
\* 50; an item left out is older than an item written, is flagged new and is
\* counted in new_count.
C22_Witness ==
    \E r \in DOMAIN serial_runs :
        LET run == serial_runs[r]
            items == SnapshotItems(run.output)
        IN  /\ run.written
            /\ Len(run.deduped) > 50
            /\ Len(items) = 50
            /\ \E k \in DOMAIN run.deduped :
                  /\ k > 50
                  /\ run.deduped[k].isNew
                  /\ Newer(items[50], run.deduped[k])
            /\ run.new_count > NewAmong(items, DOMAIN items)

\* ---- one key, one item -------------------------------------------------------
\* C23: whenever a research-feed run has written its snapshot, no two items of
\* the file have urls that are equal when lowercased, however many runs went
\* before.
C23_NoTwoItemsWithOneUrl ==
    pc = "done" =>
        /\ research_feed_json = output
        /\ \A i, j \in DOMAIN research_feed_json.elems :
              i # j => Lower(research_feed_json.elems[i].item.url)
                          # Lower(research_feed_json.elems[j].item.url)

\* C23 witness: a second or later run fetched a url twice, once in other letter
\* case and from another feed, and wrote a snapshot with one item.
C23_Witness ==
    /\ pc = "done"
    /\ clock >= 2
    /\ \E i, j \in DOMAIN all_items :
          /\ i # j
          /\ all_items[i].url # all_items[j].url
          /\ all_items[i].source # all_items[j].source
          /\ Lower(all_items[i].url) = Lower(all_items[j].url)
    /\ Len(research_feed_json.elems) = 1

====
